---- MODULE Spec2Model ----
(***************************************************************************)
(* Trailing-stop position supervisor of EnhancedTradingBot                 *)
(* (src/simple_trading_bot.py): the decision loop (trade ->                *)
(* manage_open_positions, place_futures_order_usdc ->                      *)
(* record_position_with_trailing_stop) and the monitor thread              *)
(* (active_position_monitor) working, without any lock, on the shared      *)
(* list self.open_positions, and close_position called by both.            *)
(*                                                                         *)
(* Prices are exact rationals held as integers scaled by Scale, so that    *)
(* entry*(1+initial_stop_loss), extreme*(1-/+trailing_distance) and the    *)
(* notional-weighted merged entry are all exact.  Fractions such as        *)
(* trailing_activation = 0.012 are held in thousandths (12).               *)
(***************************************************************************)
EXTENDS Integers, Naturals, Sequences, FiniteSets, TLC

\* ---------------------------------------------------------------- bounds
\* number of orders the decision loop places in a run (fills + re-entries)
MaxOpens == 2

\* ticker prices the venue can report, in price units: around an entry at 50,
\* 49 is below the initial stop (49.6), 51 and 52 are past the activation (50.6)
Prices == {49, 50, 51, 52}

\* what place_futures_order_usdc reads for an order: the ticker price at which
\* it is filled and the trailing distance calculate_upside_potential selects
\* there (wide 0.4% when the upside is large, tight 0.2% otherwise)
Fills == {<<50, 4>>, <<51, 2>>}

\* fills of the decision loop run alone: ticker price, trailing distance and the
\* quantity bought (prices 3 apart, so that every notional-weighted average of
\* two fills of quantity 1 or 2 is exact)
SerialFills == {<<48, 4>>, <<51, 2>>, <<54, 4>>} \X {1, 2}

\* ------------------------------------------------------- program constants
\* place_futures_order_usdc: initial_stop_loss = 0.008
InitialStopLoss == 8
\* place_futures_order_usdc: trailing_activation_threshold = 0.012
TrailingActivationThreshold == 12
\* float('inf'), the lowest_price of a LONG record
Inf == 0 - 1
\* check_and_reconnect_api: retry_count = 3
RetryCount == 3
\* trade: if self.trade_cycle % 10 == 0: self.check_and_reconnect_api()
CheckEvery == 10

Threads == {"main", "mon"}
Sides == {"LONG", "SHORT"}

RECURSIVE Gcd(_, _)
Gcd(a, b) == IF b = 0 THEN a ELSE Gcd(b, a % b)

RECURSIVE LcmUpTo(_)
LcmUpTo(n) == IF n <= 1 THEN 1 ELSE LET l == LcmUpTo(n - 1) IN (l * n) \div Gcd(l, n)

\* every quantity is 1 per fill, so a merged quantity is at most MaxOpens and
\* every merged entry price is a multiple of 1/LcmUpTo(MaxOpens)
Scale == 1000 * LcmUpTo(MaxOpens)

ScaledPrices == {p * Scale : p \in Prices}

VARIABLES
    rec,             \* the position dicts, by identity (pid)
    nOrders,         \* orders placed so far by the decision loop
    nextPid,         \* next fresh dict identity
    open_positions,  \* self.open_positions: sequence of pids
    venue,           \* (symbol, position_side) pairs the exchange holds
    pc,              \* per thread: position in its code
    iterList,        \* per thread: the list object its for-loop walks
    idx,             \* per thread: index of the list iterator
    mAlias,          \* main's iterated list is the object self.open_positions
    cur,             \* per thread: pid bound to the loop variable pos
    loc,             \* per thread: locals read from pos before the price fetch
    toClose,         \* per thread: close_position's positions_to_close
    closedPos,       \* per thread: close_position's closed_positions
    success,         \* per thread: close_position's success
    toRemove,        \* manage_open_positions' positions_to_remove
    accepted,        \* per pid: close orders for it the gateway accepted
    ev,              \* the last step taken, for the properties
    trade_cycle,     \* self.trade_cycle modulo CheckEvery
    apiPc,           \* position in check_and_reconnect_api ("none": not in it)
    attempt,         \* reconnection attempts made in the current call
    slept,           \* seconds of back-off slept in the current call
    apiResult,       \* what the last call returned
    connUp,          \* the API answers a ping
    position_history, \* self.position_history: terminal records of closed positions
    call,            \* risk_management: the last function called, its arguments and outcome
    matched,         \* record_position_with_trailing_stop: i and the values computed from pos
    loaded           \* the monitor's load_positions result, not yet assigned

vars == <<rec, nOrders, nextPid, open_positions, venue, pc, iterList, idx,
          mAlias, cur, loc, toClose, closedPos, success, toRemove, accepted, ev,
          trade_cycle, apiPc, attempt, slept, apiResult, connUp, position_history, call,
          matched, loaded>>

Pids == 1 .. MaxOpens

NoRec == [side |-> "NONE", entry_price |-> 0, quantity |-> 0,
          initial_stop_loss |-> 0, trailing_activation |-> 0,
          trailing_distance |-> 0, trailing_active |-> FALSE,
          highest_price |-> 0, lowest_price |-> 0, current_stop_level |-> 0,
          merges |-> 0]

NoLoc == [entry_price |-> 0, trailing_activation |-> 0, trailing_distance |-> 0,
          trailing_active |-> FALSE, highest_price |-> 0, lowest_price |-> 0,
          current_stop_level |-> 0]

\* the scan of record_position_with_trailing_stop is not under way
NoMatch == [i |-> 0]

\* no risk calculator has been called yet
NoCall == [fn |-> "none"]

NoEv == [op |-> "none", t |-> "main", pid |-> 0, price |-> 0,
         armed |-> FALSE, closeReq |-> FALSE, fresh |-> FALSE, qty |-> 0]

\* fresh: for a tick, the record still held what the tick had read from it;
\* qty: for a fill, the quantity filled
Ev(o, t, p, cp, a, c) == [op |-> o, t |-> t, pid |-> p, price |-> cp,
                          armed |-> a, closeReq |-> c, fresh |-> FALSE, qty |-> 0]

\* ------------------------------------------------------------ sequences
RECURSIVE RemoveFirst(_, _)
RemoveFirst(s, x) ==
    IF s = <<>> THEN <<>>
    ELSE IF Head(s) = x THEN Tail(s)
    ELSE <<Head(s)>> \o RemoveFirst(Tail(s), x)

SeqElems(s) == {s[i] : i \in 1 .. Len(s)}

\* for pos in xs: if pos in lst: lst.remove(pos)
RECURSIVE RemoveAll(_, _)
RemoveAll(lst, xs) ==
    IF xs = <<>> THEN lst
    ELSE RemoveAll(IF Head(xs) \in SeqElems(lst) THEN RemoveFirst(lst, Head(xs)) ELSE lst,
                   Tail(xs))

Live == SeqElems(open_positions)


\* ------------------------------------------------- record_position_with_trailing_stop
\* place_futures_order_usdc passes -initial_stop_loss for BUY, +initial_stop_loss for SELL
SignedStopLoss(side) == IF side = "LONG" THEN 0 - InitialStopLoss ELSE InitialStopLoss

\* entry * (1 + initial_stop_loss) for LONG, entry * (1 - initial_stop_loss) for SHORT
InitialStopPrice(side, entry, isl) ==
    IF side = "LONG" THEN (entry * (1000 + isl)) \div 1000
    ELSE (entry * (1000 - isl)) \div 1000

\* MergedEntry as the plain mean of the two prices, quantities ignored
MergedEntry_Unweighted(p1, q1, p2, q2) == (p1 + p2) \div 2

\* (pos.entry_price * pos.quantity + entry_price * quantity) / total_qty
MergedEntry(p1, q1, p2, q2) == (p1 * q1 + p2 * q2) \div (q1 + q2)

\* MergeTrailingActive with the armed state kept across the merge
MergeTrailingActive_Keeps(r) == r.trailing_active

\* the value a merge writes to trailing_active
MergeTrailingActive(r) == FALSE

\* convert_positions_to_trailing_stop: the default stop_loss of a legacy
\* record, -0.0175, in ten-thousandths
OldStopLoss == 175

\* entry * (1 + old_stop_loss) for LONG, entry * (1 - abs(old_stop_loss)) for SHORT
ConvertedStopPrice(side, entry) ==
    IF side = "LONG" THEN (entry * (10000 - OldStopLoss)) \div 10000
    ELSE (entry * (10000 - OldStopLoss)) \div 10000

NewPosition(side, entry, qty, isl, act, td) ==
    [side |-> side, entry_price |-> entry, quantity |-> qty,
     initial_stop_loss |-> isl, trailing_activation |-> act,
     trailing_distance |-> td, trailing_active |-> FALSE,
     highest_price |-> IF side = "LONG" THEN entry ELSE 0,
     lowest_price |-> IF side = "SHORT" THEN entry ELSE Inf,
     current_stop_level |-> InitialStopPrice(side, entry, isl),
     merges |-> 0]

MergePosition(r, entry, qty, isl, act, td) ==
    LET new_entry == MergedEntry(r.entry_price, r.quantity, entry, qty) IN
    [r EXCEPT !.entry_price = new_entry,
              !.quantity = r.quantity + qty,
              !.initial_stop_loss = isl,
              !.trailing_activation = act,
              !.trailing_distance = td,
              !.trailing_active = MergeTrailingActive(r),
              !.highest_price = IF r.side = "LONG" THEN new_entry ELSE 0,
              !.lowest_price = IF r.side = "SHORT" THEN new_entry ELSE Inf,
              !.current_stop_level = InitialStopPrice(r.side, new_entry, isl),
              !.merges = r.merges + 1]

\* pids of self.open_positions whose position_side matches, in list order
Matching(lst, side) == SelectSeq(lst, LAMBDA p : rec[p].side = side)

\* ExistingRecord with the scan finding nothing: every fill appends a record
ExistingRecord_None(side) == <<>>

\* for i, pos in enumerate(self.open_positions): the records of the same
\* (symbol, position_side); the first one is merged into
ExistingRecord(side) == Matching(open_positions, side)

\* load_positions(client, logger): the records of the positions the venue
\* still holds, with their fields as they are
load_positions(lst) == SelectSeq(lst, LAMBDA p : rec[p].side \in venue)

\* --------------------------------------------------------------- the tick
\* locals read from pos before the price fetch
Snapshot(r) ==
    [entry_price |-> r.entry_price,
     trailing_activation |-> r.trailing_activation,
     trailing_distance |-> r.trailing_distance,
     trailing_active |-> r.trailing_active,
     highest_price |-> r.highest_price,
     lowest_price |-> r.lowest_price,
     current_stop_level |-> r.current_stop_level]

\* profit_pct >= trailing_activation, profit_pct = (price - entry) / entry
ProfitReached(side, entry, act, cp) ==
    IF side = "LONG" THEN (cp - entry) * 1000 >= act * entry
    ELSE (entry - cp) * 1000 >= act * entry

\* current_price > highest_price / current_price < lowest_price or lowest_price == 0
NewExtreme(side, l, cp) ==
    IF side = "LONG" THEN cp > l.highest_price
    ELSE cp < l.lowest_price \/ l.lowest_price = 0

\* the activation test, nested in the new-extreme branch
Activates(side, l, cp) ==
    /\ NewExtreme(side, l, cp)
    /\ ~l.trailing_active
    /\ ProfitReached(side, l.entry_price, l.trailing_activation, cp)

\* highest_price * (1 - trailing_distance) / lowest_price * (1 + trailing_distance)
CandidateStop(side, ext, td) ==
    IF side = "LONG" THEN (ext * (1000 - td)) \div 1000
    ELSE (ext * (1000 + td)) \div 1000

\* MoreProtective with the comparison dropped: the candidate always replaces
MoreProtective_Always(side, ns, stop) == TRUE

\* new_stop_level > current_stop_level / new_stop_level < current_stop_level or == 0
MoreProtective(side, ns, stop) ==
    IF side = "LONG" THEN ns > stop ELSE ns < stop \/ stop = 0

\* the stop the tick holds in its local current_stop_level after the update
TickStop(side, l, cp) ==
    LET la == l.trailing_active \/ Activates(side, l, cp)
        ns == CandidateStop(side, cp, l.trailing_distance)
    IN  IF NewExtreme(side, l, cp) /\ la /\ MoreProtective(side, ns, l.current_stop_level)
        THEN ns ELSE l.current_stop_level

\* StopHit with the SHORT comparison left out
StopHit_LongOnly(side, cp, stop) == side = "LONG" /\ cp <= stop

\* current_price <= current_stop_level / >= current_stop_level and > 0
StopHit(side, cp, stop) ==
    IF side = "LONG" THEN cp <= stop ELSE cp >= stop /\ stop > 0

\* TickWrite with pos["trailing_active"] assigned the outcome of the activation
\* test on every tick, instead of set to True when the test passes
TickWrite_ActiveFromTest(r, l, cp) ==
    LET side == r.side
        ext  == NewExtreme(side, l, cp)
        arm  == Activates(side, l, cp)
        la   == l.trailing_active \/ arm
        ns   == CandidateStop(side, cp, l.trailing_distance)
        up   == ext /\ la /\ MoreProtective(side, ns, l.current_stop_level)
    IN  [r EXCEPT !.highest_price = IF ext /\ side = "LONG" THEN cp ELSE @,
                  !.lowest_price = IF ext /\ side = "SHORT" THEN cp ELSE @,
                  !.trailing_active =
                      ProfitReached(side, l.entry_price, l.trailing_activation, cp),
                  !.current_stop_level = IF up THEN ns ELSE @]

\* the writes of one tick to the dict pos
TickWrite(r, l, cp) ==
    LET side == r.side
        ext  == NewExtreme(side, l, cp)
        arm  == Activates(side, l, cp)
        la   == l.trailing_active \/ arm
        ns   == CandidateStop(side, cp, l.trailing_distance)
        up   == ext /\ la /\ MoreProtective(side, ns, l.current_stop_level)
    IN  [r EXCEPT !.highest_price = IF ext /\ side = "LONG" THEN cp ELSE @,
                  !.lowest_price = IF ext /\ side = "SHORT" THEN cp ELSE @,
                  !.trailing_active = IF arm THEN TRUE ELSE @,
                  !.current_stop_level = IF up THEN ns ELSE @]

\* ------------------------------------------------------------------ Init
\* __init__: self.open_positions = []; the account holds no position
Init ==
    /\ rec = [p \in Pids |-> NoRec]
    /\ nOrders = 0
    /\ nextPid = 1
    /\ open_positions = <<>>
    /\ venue = {}
    /\ pc = [t \in Threads |-> "idle"]
    /\ iterList = [t \in Threads |-> <<>>]
    /\ idx = [t \in Threads |-> 1]
    /\ mAlias = FALSE
    /\ cur = [t \in Threads |-> 0]
    /\ loc = [t \in Threads |-> NoLoc]
    /\ toClose = [t \in Threads |-> <<>>]
    /\ closedPos = [t \in Threads |-> <<>>]
    /\ success = [t \in Threads |-> FALSE]
    /\ toRemove = <<>>
    /\ accepted = [p \in Pids |-> 0]
    /\ ev = NoEv
    /\ trade_cycle = 0
    /\ apiPc = "none"
    /\ attempt = 0
    /\ slept = 0
    /\ apiResult = "none"
    /\ connUp = TRUE
    /\ position_history = <<>>
    /\ call = NoCall
    /\ matched = NoMatch
    /\ loaded = <<>>

tickLocals == <<cur, loc>>
closeLocals == <<toClose, closedPos, success>>
iterVars == <<iterList, idx, mAlias>>
book == <<nOrders, nextPid>>
ghost == <<accepted>>
api == <<trade_cycle, apiPc, attempt, slept, apiResult, connUp>>
\* the history list: close_position logs a close and leaves the list alone
store == <<position_history>>
\* the risk calculators keep no state between calls and touch none of the bot's
riskVars == <<call>>
\* locals of the two statements that read self.open_positions more than once
raceVars == <<matched, loaded>>
trading == <<rec, nOrders, nextPid, open_positions, venue, pc, iterList, idx,
             mAlias, cur, loc, toClose, closedPos, success, toRemove, accepted, ev,
             store, raceVars>>

\* ------------------------------------------------- place_futures_order_usdc
\* the order is accepted: the venue holds the position, and
\* record_position_with_trailing_stop merges it into the open record of the
\* same (symbol, position_side) or appends a new record
PlaceOrder(side, cp, qty, td) ==
    /\ pc["main"] = "idle"
    /\ nOrders < MaxOpens
    /\ nOrders' = nOrders + 1
    /\ venue' = venue \cup {side}
    /\ LET m == ExistingRecord(side)
           isl == SignedStopLoss(side)
       IN  IF m # <<>>
           THEN /\ rec' = [rec EXCEPT ![Head(m)] =
                            MergePosition(@, cp, qty, isl, TrailingActivationThreshold, td)]
                /\ ev' = [Ev("merge", "main", Head(m), cp,
                              rec[Head(m)].trailing_active, FALSE) EXCEPT !.qty = qty]
                /\ UNCHANGED <<api, store, riskVars, raceVars, open_positions, nextPid>>
           ELSE /\ rec' = [rec EXCEPT ![nextPid] =
                            NewPosition(side, cp, qty, isl, TrailingActivationThreshold, td)]
                /\ open_positions' = Append(open_positions, nextPid)
                /\ nextPid' = nextPid + 1
                /\ ev' = [Ev("open", "main", nextPid, cp, FALSE, FALSE) EXCEPT !.qty = qty]
    /\ UNCHANGED <<api, store, riskVars, raceVars, pc, iterVars, tickLocals, closeLocals, toRemove, ghost>>

\* OrderFail with the position recorded before the order is sent, so that a
\* rejected order leaves a record behind
OrderFail_RecordsFirst ==
    /\ pc["main"] = "idle"
    /\ nOrders < MaxOpens
    /\ nOrders' = nOrders + 1
    /\ rec' = [rec EXCEPT ![nextPid] =
                 NewPosition("LONG", 50 * Scale, 1, SignedStopLoss("LONG"),
                             TrailingActivationThreshold, 4)]
    /\ open_positions' = Append(open_positions, nextPid)
    /\ nextPid' = nextPid + 1
    /\ ev' = Ev("order_fail", "main", 0, 0, FALSE, FALSE)
    /\ UNCHANGED <<api, store, riskVars, raceVars, venue, pc, iterVars, tickLocals,
                   closeLocals, toRemove, ghost>>

\* a pre-check fails or the order raises: return False
OrderFail ==
    /\ pc["main"] = "idle"
    /\ nOrders < MaxOpens
    /\ ev' = Ev("order_fail", "main", 0, 0, FALSE, FALSE)
    /\ UNCHANGED <<api, store, riskVars, raceVars, rec, book, open_positions, venue, pc, iterVars, tickLocals,
                   closeLocals, toRemove, ghost>>

\* ----------------------------------------------------- manage_open_positions
\* self.load_existing_positions(); return when empty; for pos in self.open_positions
ManageStart ==
    /\ pc["main"] = "idle"
    /\ LET l == load_positions(open_positions) IN
       /\ open_positions' = l
       /\ iterList' = [iterList EXCEPT !["main"] = l]
       /\ mAlias' = (l # <<>>)
       /\ pc' = [pc EXCEPT !["main"] = IF l = <<>> THEN "idle" ELSE "loop"]
    /\ idx' = [idx EXCEPT !["main"] = 1]
    /\ toRemove' = <<>>
    /\ ev' = NoEv
    /\ UNCHANGED <<api, store, riskVars, raceVars, rec, book, venue, tickLocals, closeLocals, ghost>>

\* loop exhausted: remove positions_to_remove, self.load_existing_positions();
\* when the load raises (~loadOk) the exception ends the call in trade's except
\* and the list stays as the removal left it
ManageEnd(loadOk) ==
    /\ pc["main"] = "loop"
    /\ idx["main"] > Len(iterList["main"])
    /\ open_positions' = IF loadOk
                          THEN load_positions(RemoveAll(open_positions, toRemove))
                          ELSE RemoveAll(open_positions, toRemove)
    /\ toRemove' = <<>>
    /\ iterList' = [iterList EXCEPT !["main"] = <<>>]
    /\ idx' = [idx EXCEPT !["main"] = 1]
    /\ mAlias' = FALSE
    /\ pc' = [pc EXCEPT !["main"] = "idle"]
    /\ cur' = [cur EXCEPT !["main"] = 0]
    /\ loc' = [loc EXCEPT !["main"] = NoLoc]
    /\ ev' = NoEv
    /\ UNCHANGED <<api, store, riskVars, raceVars, rec, book, venue, closeLocals, ghost>>

\* --------------------------------------------------- active_position_monitor
\* while True: sleep while the list is empty; load; positions = copy
MonitorStart ==
    /\ pc["mon"] = "idle"
    /\ open_positions # <<>>
    /\ LET l == load_positions(open_positions) IN
       /\ open_positions' = l
       /\ iterList' = [iterList EXCEPT !["mon"] = l]
    /\ mAlias' = FALSE
    /\ idx' = [idx EXCEPT !["mon"] = 1]
    /\ pc' = [pc EXCEPT !["mon"] = "loop"]
    /\ ev' = NoEv
    /\ UNCHANGED <<api, store, riskVars, raceVars, rec, book, venue, tickLocals, closeLocals, toRemove, ghost>>

\* self.load_existing_positions() raises (the gateway call of load_positions
\* fails): the exception leaves the while loop for the except around it, and
\* active_position_monitor returns
MonitorLoadFail ==
    /\ pc["mon"] = "idle"
    /\ open_positions # <<>>
    /\ pc' = [pc EXCEPT !["mon"] = "dead"]
    /\ ev' = Ev("monitor_exit", "mon", 0, 0, FALSE, FALSE)
    /\ UNCHANGED <<api, store, riskVars, raceVars, rec, book, open_positions, venue, iterVars, tickLocals,
                   closeLocals, toRemove, ghost>>

\* loop exhausted: time.sleep(check_interval)
MonitorEnd ==
    /\ pc["mon"] = "loop"
    /\ idx["mon"] > Len(iterList["mon"])
    /\ iterList' = [iterList EXCEPT !["mon"] = <<>>]
    /\ idx' = [idx EXCEPT !["mon"] = 1]
    /\ pc' = [pc EXCEPT !["mon"] = "idle"]
    /\ cur' = [cur EXCEPT !["mon"] = 0]
    /\ loc' = [loc EXCEPT !["mon"] = NoLoc]
    /\ ev' = NoEv
    /\ UNCHANGED <<api, store, riskVars, raceVars, rec, book, open_positions, venue, mAlias, closeLocals,
                   toRemove, ghost>>

\* ------------------------------------------- one position of a scan, any thread
\* the iterator yields the next pos; the tick reads its fields into locals
ReadPos(t) ==
    /\ pc[t] = "loop"
    /\ idx[t] <= Len(iterList[t])
    /\ LET p == iterList[t][idx[t]] IN
       /\ cur' = [cur EXCEPT ![t] = p]
       /\ loc' = [loc EXCEPT ![t] = Snapshot(rec[p])]
       /\ ev' = NoEv
    /\ idx' = [idx EXCEPT ![t] = @ + 1]
    /\ pc' = [pc EXCEPT ![t] = "fetch"]
    /\ UNCHANGED <<api, store, riskVars, raceVars, rec, book, open_positions, venue, iterList, mAlias,
                   closeLocals, toRemove, ghost>>

\* FetchFail with break in place of continue: the scan is abandoned
FetchFail_AbortsScan(t) ==
    /\ pc[t] = "fetch"
    /\ pc' = [pc EXCEPT ![t] = "loop"]
    /\ ev' = Ev("fetch_fail", t, cur[t], 0, FALSE, FALSE)
    /\ cur' = [cur EXCEPT ![t] = 0]
    /\ loc' = [loc EXCEPT ![t] = NoLoc]
    /\ idx' = [idx EXCEPT ![t] = Len(iterList[t]) + 1]
    /\ UNCHANGED <<api, store, riskVars, raceVars, rec, book, open_positions, venue, iterList, mAlias,
                   closeLocals, toRemove, ghost>>

\* futures_symbol_ticker raises: continue
FetchFail(t) ==
    /\ pc[t] = "fetch"
    /\ pc' = [pc EXCEPT ![t] = "loop"]
    /\ ev' = Ev("fetch_fail", t, cur[t], 0, FALSE, FALSE)
    /\ cur' = [cur EXCEPT ![t] = 0]
    /\ loc' = [loc EXCEPT ![t] = NoLoc]
    /\ UNCHANGED <<api, store, riskVars, raceVars, rec, book, open_positions, venue, iterVars,
                   closeLocals, toRemove, ghost>>

\* the ticker returns cp: ratchet update from the locals, then the stop check
Tick(t, cp) ==
    /\ pc[t] = "fetch"
    /\ LET p == cur[t]
           side == rec[p].side
           l == loc[t]
           hit == StopHit(side, cp, TickStop(side, l, cp))
       IN  /\ rec' = [rec EXCEPT ![p] = TickWrite(@, l, cp)]
           /\ pc' = [pc EXCEPT ![t] = IF hit THEN "close" ELSE "loop"]
           /\ ev' = [Ev("tick", t, p, cp, Activates(side, l, cp), hit)
                        EXCEPT !.fresh = (l = Snapshot(rec[p]))]
           /\ cur' = [cur EXCEPT ![t] = IF hit THEN p ELSE 0]
    /\ loc' = [loc EXCEPT ![t] = NoLoc]
    /\ UNCHANGED <<api, store, riskVars, raceVars, book, open_positions, venue, iterVars,
                   closeLocals, toRemove, ghost>>

\* ------------------------------------------------------------ close_position
\* the gateway accepts a reduce-only / position-side close order only while
\* it holds a position for the pair
GatewayAccepts(side) == side \in venue

\* positions_to_close: the records of self.open_positions matching the pair
CloseLookup(t) ==
    /\ pc[t] = "close"
    /\ LET m == Matching(open_positions, rec[cur[t]].side) IN
       /\ toClose' = [toClose EXCEPT ![t] = m]
       /\ pc' = [pc EXCEPT ![t] = IF m = <<>> THEN "loop" ELSE "order"]
    /\ closedPos' = [closedPos EXCEPT ![t] = <<>>]
    /\ success' = [success EXCEPT ![t] = FALSE]
    /\ ev' = NoEv
    /\ cur' = [cur EXCEPT ![t] =
                 IF Matching(open_positions, rec[cur[t]].side) = <<>> THEN 0 ELSE @]
    /\ UNCHANGED <<api, store, riskVars, raceVars, rec, book, open_positions, venue, iterVars, loc,
                   toRemove, ghost>>

AfterOrder(t) ==
    /\ toClose' = [toClose EXCEPT ![t] = Tail(@)]
    /\ pc' = [pc EXCEPT ![t] = IF Tail(toClose[t]) = <<>> THEN "finish" ELSE "order"]

\* CloseOrderFail with the position appended to closed_positions before the
\* order is tried, so that a failed order still marks it closed
CloseOrderFail_MarksClosed(t) ==
    /\ pc[t] = "order"
    /\ AfterOrder(t)
    /\ closedPos' = [closedPos EXCEPT ![t] = Append(@, Head(toClose[t]))]
    /\ success' = [success EXCEPT ![t] = TRUE]
    /\ ev' = Ev("close_fail", t, Head(toClose[t]), 0, FALSE, FALSE)
    /\ UNCHANGED <<api, store, riskVars, raceVars, rec, book, open_positions, venue, iterVars, tickLocals,
                   toRemove, accepted>>

\* futures_exchange_info or futures_create_order raises: except, next pos
CloseOrderFail(t) ==
    /\ pc[t] = "order"
    /\ AfterOrder(t)
    /\ ev' = Ev("close_fail", t, Head(toClose[t]), 0, FALSE, FALSE)
    /\ UNCHANGED <<api, store, riskVars, raceVars, rec, book, open_positions, venue, iterVars, tickLocals,
                   closedPos, success, toRemove, accepted>>

\* the order is accepted; the ticker fetch that follows succeeds (tickerOk) and
\* the position is appended to closed_positions, or raises into the except
CloseOrderAccepted(t, tickerOk) ==
    /\ pc[t] = "order"
    /\ LET p == Head(toClose[t]) IN
       /\ GatewayAccepts(rec[p].side)
       /\ venue' = venue \ {rec[p].side}
       /\ accepted' = [accepted EXCEPT ![p] = @ + 1]
       /\ closedPos' = [closedPos EXCEPT ![t] = IF tickerOk THEN Append(@, p) ELSE @]
       /\ success' = [success EXCEPT ![t] = IF tickerOk THEN TRUE ELSE @]
       /\ ev' = Ev(IF tickerOk THEN "close_ok" ELSE "close_noticker", t, p, 0, FALSE, FALSE)
    /\ AfterOrder(t)
    /\ UNCHANGED <<api, store, riskVars, raceVars, rec, book, open_positions, iterVars, tickLocals, toRemove>>

\* remove closed_positions from self.open_positions, load_existing_positions(),
\* return success; when the load raises (~loadOk) the outer except returns
\* False with the list as the removal left it; manage_open_positions appends
\* pos to positions_to_remove when the call returned True
CloseFinish(t, loadOk) ==
    /\ pc[t] = "finish"
    /\ LET removed == RemoveAll(open_positions, closedPos[t]) IN
       /\ open_positions' = IF loadOk THEN load_positions(removed) ELSE removed
       /\ iterList' = [iterList EXCEPT !["main"] =
                          IF mAlias THEN RemoveAll(@, closedPos[t]) ELSE @]
    /\ mAlias' = IF loadOk THEN FALSE ELSE mAlias
    /\ toRemove' = IF t = "main" /\ success[t] /\ loadOk
                    THEN Append(toRemove, cur[t]) ELSE toRemove
    /\ pc' = [pc EXCEPT ![t] = "loop"]
    /\ ev' = Ev("close_return", t, cur[t], 0, FALSE, success[t] /\ loadOk)
    /\ cur' = [cur EXCEPT ![t] = 0]
    /\ closedPos' = [closedPos EXCEPT ![t] = <<>>]
    /\ success' = [success EXCEPT ![t] = FALSE]
    /\ UNCHANGED <<api, store, riskVars, raceVars, rec, book, venue, idx, loc, toClose, ghost>>

\* ------------------------------------------------------------------ Next
Next ==
    \/ \E side \in Sides, f \in Fills : PlaceOrder(side, f[1] * Scale, 1, f[2])
    \/ OrderFail
    \/ ManageStart
    \/ \E loadOk \in BOOLEAN : ManageEnd(loadOk)
    \/ MonitorStart
    \/ MonitorLoadFail
    \/ MonitorEnd
    \/ \E t \in Threads : ReadPos(t)
    \/ \E t \in Threads : FetchFail(t)
    \/ \E t \in Threads, cp \in ScaledPrices : Tick(t, cp)
    \/ \E t \in Threads : CloseLookup(t)
    \/ \E t \in Threads : CloseOrderFail(t)
    \/ \E t \in Threads, tickerOk \in BOOLEAN : CloseOrderAccepted(t, tickerOk)
    \/ \E t \in Threads, loadOk \in BOOLEAN : CloseFinish(t, loadOk)

Spec == Init /\ [][Next]_vars

\* the decision loop alone (the monitor thread never scheduled), with fills of
\* differing quantities
NextSerial ==
    \/ \E side \in Sides, f \in SerialFills :
          PlaceOrder(side, f[1][1] * Scale, f[2], f[1][2])
    \/ OrderFail
    \/ ManageStart
    \/ \E loadOk \in BOOLEAN : ManageEnd(loadOk)
    \/ ReadPos("main")
    \/ FetchFail("main")
    \/ \E cp \in ScaledPrices : Tick("main", cp)
    \/ CloseLookup("main")
    \/ CloseOrderFail("main")
    \/ \E tickerOk \in BOOLEAN : CloseOrderAccepted("main", tickerOk)
    \/ \E loadOk \in BOOLEAN : CloseFinish("main", loadOk)

SpecSerial == Init /\ [][NextSerial]_vars

\* ------------------------------- the two threads, statement by statement
\* self.open_positions = load_positions(self.client, self.logger) in the
\* monitor: the call returns its list ...
MonitorLoadCall ==
    /\ pc["mon"] = "idle"
    /\ open_positions # <<>>
    /\ loaded' = load_positions(open_positions)
    /\ pc' = [pc EXCEPT !["mon"] = "load"]
    /\ ev' = NoEv
    /\ UNCHANGED <<api, store, riskVars, matched, rec, book, open_positions, venue, iterVars,
                   tickLocals, closeLocals, toRemove, ghost>>

\* ... and the attribute is bound to it; positions = self.open_positions.copy()
MonitorLoadAssign ==
    /\ pc["mon"] = "load"
    /\ open_positions' = loaded
    /\ iterList' = [iterList EXCEPT !["mon"] = loaded]
    /\ loaded' = <<>>
    /\ mAlias' = FALSE
    /\ idx' = [idx EXCEPT !["mon"] = 1]
    /\ pc' = [pc EXCEPT !["mon"] = "loop"]
    /\ ev' = Ev("reload", "mon", 0, 0, FALSE, FALSE)
    /\ UNCHANGED <<api, store, riskVars, matched, rec, book, venue, tickLocals, closeLocals,
                   toRemove, ghost>>

\* for i, pos in enumerate(self.open_positions): the index of the first record
\* of the pair
MatchIndex(side) == CHOOSE i \in 1 .. Len(open_positions) :
    /\ rec[open_positions[i]].side = side
    /\ \A j \in 1 .. (i - 1) : rec[open_positions[j]].side # side

\* the order is accepted and the scan of record_position_with_trailing_stop
\* finds a record of the pair: total_qty and new_entry are computed from pos
MergeScan(side, cp, qty, td) ==
    /\ pc["main"] = "idle"
    /\ nOrders < MaxOpens
    /\ ExistingRecord(side) # <<>>
    /\ nOrders' = nOrders + 1
    /\ venue' = venue \cup {side}
    /\ matched' = [i |-> MatchIndex(side), pos |-> Head(ExistingRecord(side)),
                   position_side |-> side, price |-> cp, qty |-> qty,
                   new |-> MergePosition(rec[Head(ExistingRecord(side))], cp, qty,
                                         SignedStopLoss(side), TrailingActivationThreshold, td)]
    /\ pc' = [pc EXCEPT !["main"] = "merge_entry"]
    /\ ev' = NoEv
    /\ UNCHANGED <<api, store, riskVars, loaded, rec, nextPid, open_positions, iterVars,
                   tickLocals, closeLocals, toRemove, ghost>>

\* self.open_positions[i]["entry_price"] = new_entry and ["quantity"] = total_qty
MergeWriteEntry ==
    /\ pc["main"] = "merge_entry"
    /\ matched.i <= Len(open_positions)
    /\ rec' = [rec EXCEPT ![open_positions[matched.i]] =
                 [@ EXCEPT !.entry_price = matched.new.entry_price,
                           !.quantity = matched.new.quantity]]
    /\ pc' = [pc EXCEPT !["main"] = "merge_stop"]
    /\ ev' = [Ev("merge_entry", "main", open_positions[matched.i], matched.price,
                  FALSE, FALSE) EXCEPT !.qty = matched.qty]
    /\ UNCHANGED <<api, store, riskVars, raceVars, book, open_positions, venue, iterVars,
                   tickLocals, closeLocals, toRemove, ghost>>

\* the writes of the stop settings, from initial_stop_loss to current_stop_level
MergeWriteStop ==
    /\ pc["main"] = "merge_stop"
    /\ matched.i <= Len(open_positions)
    /\ rec' = [rec EXCEPT ![open_positions[matched.i]] =
                 [@ EXCEPT !.initial_stop_loss = matched.new.initial_stop_loss,
                           !.trailing_activation = matched.new.trailing_activation,
                           !.trailing_distance = matched.new.trailing_distance,
                           !.trailing_active = matched.new.trailing_active,
                           !.highest_price = matched.new.highest_price,
                           !.lowest_price = matched.new.lowest_price,
                           !.current_stop_level = matched.new.current_stop_level,
                           !.merges = @ + 1]]
    /\ matched' = NoMatch
    /\ pc' = [pc EXCEPT !["main"] = "idle"]
    /\ ev' = [Ev("merge", "main", open_positions[matched.i], matched.price,
                  rec[open_positions[matched.i]].trailing_active, FALSE)
                 EXCEPT !.qty = matched.qty]
    /\ UNCHANGED <<api, store, riskVars, loaded, book, open_positions, venue, iterVars,
                   tickLocals, closeLocals, toRemove, ghost>>

\* self.open_positions[i] raises IndexError: the except of
\* place_futures_order_usdc logs it and returns False
MergeIndexError ==
    /\ pc["main"] \in {"merge_entry", "merge_stop"}
    /\ matched.i > Len(open_positions)
    /\ matched' = NoMatch
    /\ pc' = [pc EXCEPT !["main"] = "idle"]
    /\ ev' = [Ev("merge_abort", "main", matched.pos, matched.price, FALSE,
                  pc["main"] = "merge_stop") EXCEPT !.qty = matched.qty]
    /\ UNCHANGED <<api, store, riskVars, loaded, rec, book, open_positions, venue, iterVars,
                   tickLocals, closeLocals, toRemove, ghost>>

\* fills of the statement-level runs
RaceFills == {<<50, 4>>}

NextRace ==
    \/ \E side \in Sides, f \in RaceFills : PlaceOrder(side, f[1] * Scale, 1, f[2])
    \/ \E side \in Sides, f \in RaceFills : MergeScan(side, f[1] * Scale, 1, f[2])
    \/ MergeWriteEntry
    \/ MergeWriteStop
    \/ MergeIndexError
    \/ ManageStart
    \/ \E loadOk \in BOOLEAN : ManageEnd(loadOk)
    \/ MonitorLoadCall
    \/ MonitorLoadAssign
    \/ MonitorEnd
    \/ \E t \in Threads : ReadPos(t)
    \/ \E t \in Threads, cp \in ScaledPrices : Tick(t, cp)
    \/ \E t \in Threads : CloseLookup(t)
    \/ \E t \in Threads : CloseOrderFail(t)
    \/ \E t \in Threads, tickerOk \in BOOLEAN : CloseOrderAccepted(t, tickerOk)
    \/ \E t \in Threads, loadOk \in BOOLEAN : CloseFinish(t, loadOk)

SpecRace == Init /\ [][NextRace]_vars

\* ------------------------------------------- the two schedules, scheduled fairly
\* ticker prices of the fair runs: around an entry at 50, 49 is below the
\* initial stop and 51 past the activation
LivePrices == {49 * Scale, 51 * Scale}

\* both threads with one kind of fill
NextLive ==
    \/ \E side \in Sides, f \in RaceFills : PlaceOrder(side, f[1] * Scale, 1, f[2])
    \/ ManageStart
    \/ \E loadOk \in BOOLEAN : ManageEnd(loadOk)
    \/ MonitorStart
    \/ MonitorLoadFail
    \/ MonitorEnd
    \/ \E t \in Threads : ReadPos(t)
    \/ \E t \in Threads : FetchFail(t)
    \/ \E t \in Threads, cp \in LivePrices : Tick(t, cp)
    \/ \E t \in Threads : CloseLookup(t)
    \/ \E t \in Threads : CloseOrderFail(t)
    \/ \E t \in Threads, tickerOk \in BOOLEAN : CloseOrderAccepted(t, tickerOk)
    \/ \E t \in Threads, loadOk \in BOOLEAN : CloseFinish(t, loadOk)

\* a step of thread t inside a scan
ScanStep(t) ==
    \/ ReadPos(t)
    \/ FetchFail(t)
    \/ \E cp \in LivePrices : Tick(t, cp)
    \/ CloseLookup(t)
    \/ CloseOrderFail(t)
    \/ \E tickerOk \in BOOLEAN : CloseOrderAccepted(t, tickerOk)
    \/ \E loadOk \in BOOLEAN : CloseFinish(t, loadOk)

\* trade's while True loop calls manage_open_positions every cycle
MainStep == ManageStart \/ ScanStep("main") \/ \E loadOk \in BOOLEAN : ManageEnd(loadOk)

\* the monitor thread's while True loop, until an exception ends it
MonitorStep == MonitorStart \/ MonitorLoadFail \/ ScanStep("mon") \/ MonitorEnd

\* the gateway does not fail forever: a price fetch for a position, a close
\* order with its ticker fetch, and the reload that ends close_position each
\* succeed eventually when tried again and again
GatewayFair ==
    /\ \A p \in Pids :
          SF_vars(\E t \in Threads : cur[t] = p /\ \E cp \in LivePrices : Tick(t, cp))
    /\ SF_vars(\E t \in Threads : CloseOrderAccepted(t, TRUE))
    /\ SF_vars(\E t \in Threads : CloseFinish(t, TRUE))

\* each thread takes its next step, and the gateway is fair
Fairness == WF_vars(MainStep) /\ WF_vars(MonitorStep) /\ GatewayFair

SpecLive == Init /\ [][NextLive]_vars /\ Fairness

\* ------------------------------------------------- check_and_reconnect_api
\* trade calls it once before the loop
StartupCheck ==
    /\ apiPc = "none" /\ apiResult = "none" /\ trade_cycle = 0
    /\ apiPc' = "ping"
    /\ UNCHANGED <<trade_cycle, attempt, slept, apiResult, connUp, trading, riskVars>>

\* while True: self.trade_cycle += 1; every CheckEvery-th cycle calls it
CycleStart ==
    /\ apiPc = "none" /\ apiResult # "none"
    /\ trade_cycle' = (trade_cycle + 1) % CheckEvery
    /\ apiPc' = IF trade_cycle' = 0 THEN "ping" ELSE "none"
    /\ UNCHANGED <<attempt, slept, apiResult, connUp, trading, riskVars>>

\* self.client.ping() answers: return True
PingOk ==
    /\ apiPc = "ping" /\ connUp
    /\ apiPc' = "none" /\ apiResult' = "True"
    /\ attempt' = 0 /\ slept' = 0
    /\ UNCHANGED <<trade_cycle, connUp, trading, riskVars>>

\* self.client.ping() raises: enter the except, retry_count = 3
PingFail ==
    /\ apiPc = "ping" /\ ~connUp
    /\ apiPc' = "reconnect"
    /\ attempt' = 0 /\ slept' = 0
    /\ UNCHANGED <<trade_cycle, apiResult, connUp, trading, riskVars>>

\* an attempt succeeds: reconnected = True; break; return reconnected
ReconnectOk ==
    /\ apiPc = "reconnect" /\ attempt < RetryCount /\ connUp
    /\ apiPc' = "none" /\ apiResult' = "True"
    /\ attempt' = attempt + 1
    /\ UNCHANGED <<trade_cycle, slept, connUp, trading, riskVars>>

\* ReconnectFail retrying without the ceiling of range(retry_count)
ReconnectFail_NoCeiling ==
    /\ apiPc = "reconnect" /\ ~connUp
    /\ attempt' = attempt + 1
    /\ slept' = slept + 5 * (attempt + 1)
    /\ UNCHANGED <<trade_cycle, apiPc, apiResult, connUp, trading, riskVars>>

\* an attempt raises: time.sleep(5 * (attempt + 1)), next attempt
ReconnectFail ==
    /\ apiPc = "reconnect" /\ attempt < RetryCount /\ ~connUp
    /\ attempt' = attempt + 1
    /\ slept' = slept + 5 * (attempt + 1)
    /\ UNCHANGED <<trade_cycle, apiPc, apiResult, connUp, trading, riskVars>>

\* range(retry_count) exhausted: if not reconnected: return False
ReconnectGiveUp ==
    /\ apiPc = "reconnect" /\ attempt >= RetryCount
    /\ apiPc' = "none" /\ apiResult' = "False"
    /\ UNCHANGED <<trade_cycle, attempt, slept, connUp, trading, riskVars>>

\* the network comes up or goes down
NetworkChange ==
    /\ connUp' = ~connUp
    /\ UNCHANGED <<trade_cycle, apiPc, attempt, slept, apiResult, trading, riskVars>>

NextApi ==
    \/ StartupCheck
    \/ CycleStart
    \/ PingOk
    \/ PingFail
    \/ ReconnectOk
    \/ ReconnectFail
    \/ ReconnectGiveUp
    \/ NetworkChange

SpecApi == Init /\ [][NextApi]_vars

\* ======================================================= risk_management.py
\* The calculators work on Python floats.  A float is modelled as an exact
\* fraction n/d in lowest terms (d > 0); d = 0 holds the IEEE values a numpy
\* division by zero produces: n = 1 is +inf, n = -1 is -inf, n = 0 is nan.
AbsInt(x) == IF x < 0 THEN 0 - x ELSE x

SignInt(x) == IF x < 0 THEN 0 - 1 ELSE IF x > 0 THEN 1 ELSE 0

Rat(n, d) ==
    IF d = 0 THEN [n |-> SignInt(n), d |-> 0]
    ELSE LET g == Gcd(AbsInt(n), AbsInt(d))
             s == SignInt(d)
         IN  [n |-> (s * n) \div g, d |-> (s * d) \div g]

RInt(i) == [n |-> i, d |-> 1]

NaN == [n |-> 0, d |-> 0]

IsNaN(a) == a.d = 0 /\ a.n = 0

IsFinite(a) == a.d > 0

RAdd(a, b) ==
    IF IsFinite(a) /\ IsFinite(b) THEN Rat(a.n * b.d + b.n * a.d, a.d * b.d)
    ELSE IF IsNaN(a) \/ IsNaN(b) THEN NaN
    ELSE IF IsFinite(a) THEN b
    ELSE IF IsFinite(b) \/ a.n = b.n THEN a
    ELSE NaN

RNeg(a) == [n |-> 0 - a.n, d |-> a.d]

RSub(a, b) == RAdd(a, RNeg(b))

RMul(a, b) ==
    IF IsFinite(a) /\ IsFinite(b) THEN Rat(a.n * b.n, a.d * b.d)
    ELSE IF IsNaN(a) \/ IsNaN(b) \/ a.n = 0 \/ b.n = 0 THEN NaN
    ELSE [n |-> a.n * b.n, d |-> 0]

\* numpy's true division: x/0 is inf or nan, with a warning and no exception
RDiv(a, b) ==
    IF IsNaN(a) \/ IsNaN(b) THEN NaN
    ELSE IF IsFinite(a) /\ IsFinite(b)
         THEN IF b.n = 0 THEN [n |-> SignInt(a.n), d |-> 0]
              ELSE Rat(a.n * b.d, a.d * b.n)
    ELSE IF IsFinite(a) THEN RInt(0)
    ELSE IF IsFinite(b) THEN [n |-> a.n * (IF b.n < 0 THEN 0 - 1 ELSE 1), d |-> 0]
    ELSE NaN

RAbs(a) == [n |-> AbsInt(a.n), d |-> a.d]

\* float comparisons: every comparison with nan is False
RLt(a, b) == ~IsNaN(a) /\ ~IsNaN(b) /\ a.n * b.d < b.n * a.d

RLe(a, b) == ~IsNaN(a) /\ ~IsNaN(b) /\ (a = b \/ a.n * b.d < b.n * a.d)

\* leverage ** 0.5, exact on the perfect squares the model draws leverage from
Sqrt(n) == CHOOSE r \in 0 .. n : r * r = n

OrderSides == {"BUY", "SELL"}

\* leverage an exchange accepts is at least 1
Leverages == {1, 4, 9, 16}

EntryPrices == {RInt(100), RInt(80)}

BasePcts == {Rat(3, 100), Rat(5, 100), Rat(12, 100)}

\* lines 17-48: the stop percentage shrinks with the square root of leverage
calculate_leveraged_stop_loss_Linear(entry_price, leverage, base_stop_loss_pct, side) ==
    LET adjusted_stop_loss_pct == RDiv(base_stop_loss_pct, RInt(leverage))
    IN  IF side = "BUY"
        THEN RMul(entry_price, RSub(RInt(1), adjusted_stop_loss_pct))
        ELSE RMul(entry_price, RAdd(RInt(1), adjusted_stop_loss_pct))

calculate_leveraged_stop_loss(entry_price, leverage, base_stop_loss_pct, side) ==
    LET adjusted_stop_loss_pct == RDiv(base_stop_loss_pct, RInt(Sqrt(leverage)))
    IN  IF side = "BUY"
        THEN RMul(entry_price, RSub(RInt(1), adjusted_stop_loss_pct))
        ELSE RMul(entry_price, RAdd(RInt(1), adjusted_stop_loss_pct))

\* a call of calculate_leveraged_stop_loss and what it returned; the functions
\* of this file keep no state, so every call is taken from the initial state
Call_calculate_leveraged_stop_loss(entry_price, leverage, base_stop_loss_pct, side) ==
    /\ call = NoCall
    /\ call' = [fn |-> "calculate_leveraged_stop_loss",
                entry_price |-> entry_price, leverage |-> leverage,
                base_stop_loss_pct |-> base_stop_loss_pct, side |-> side,
                out |-> calculate_leveraged_stop_loss(entry_price, leverage,
                                                      base_stop_loss_pct, side)]
    /\ UNCHANGED <<api, trading>>

\* lines 51-82: the target sits risk * min_risk_reward beyond entry, risk being
\* entry - stop_loss for BUY and stop_loss - entry for any other side
calculate_dynamic_take_profit_SameSide(entry_price, stop_loss, min_risk_reward, side) ==
    IF side = "BUY"
    THEN RSub(entry_price, RMul(RSub(entry_price, stop_loss), min_risk_reward))
    ELSE RAdd(entry_price, RMul(RSub(stop_loss, entry_price), min_risk_reward))

calculate_dynamic_take_profit(entry_price, stop_loss, min_risk_reward, side) ==
    IF side = "BUY"
    THEN LET risk == RSub(entry_price, stop_loss)
         IN  RAdd(entry_price, RMul(risk, min_risk_reward))
    ELSE LET risk == RSub(stop_loss, entry_price)
         IN  RSub(entry_price, RMul(risk, min_risk_reward))

\* trend_info["confidence"]: "高", "中高", "中" and anything else ("低")
Confidences == {"high", "medium_high", "medium", "low"}

\* the frame handed in: None, fewer than 20 rows, or at least 20 rows
Frames == {"none", "short", "ok"}

\* swing points and Fibonacci levels, as percentage offsets from entry
LevelOffsets == {0 - 12, 0 - 10, 0 - 8, 0 - 4, 4, 8, 10, 12}

Level(entry_price, o) == RMul(entry_price, Rat(100 + o, 100))

\* find_swing_points and calculate_fibonacci_retracements return short lists
LevelSets == {S \in SUBSET LevelOffsets : Cardinality(S) <= 2}

RMax(S) == CHOOSE x \in S : \A y \in S : RLe(y, x)

RMin(S) == CHOOSE x \in S : \A y \in S : RLe(x, y)

\* lines 105-116 and 229-240: the 3% stop, leverage-adjusted, and a 2.0 target
DefaultStop(entry_price, leverage, side) ==
    LET default_stop_pct == Rat(3, 100)
        stop_loss == calculate_leveraged_stop_loss(entry_price, leverage,
                                                   default_stop_pct, side)
        take_profit == calculate_dynamic_take_profit(entry_price, stop_loss,
                                                     RInt(2), side)
    IN  [stop_loss |-> stop_loss, take_profit |-> take_profit,
         method |-> "default_leveraged", risk_reward_ratio |-> RInt(2)]

\* lines 131-177: structure, then fibonacci, then the fixed 3% offset
BaseStop_FibonacciFirst(entry_price, side, swing_highs, swing_lows, fib_levels) ==
    IF side = "BUY"
    THEN LET relevant_swings == {low \in swing_lows : RLt(low, entry_price)}
             relevant_fibs == {level \in fib_levels : RLt(level, entry_price)}
             default_stop == RMul(entry_price, Rat(97, 100))
             band == RMul(entry_price, Rat(90, 100))
         IN  IF relevant_fibs # {} /\ RLt(band, RMax(relevant_fibs))
             THEN [base_stop |-> RMax(relevant_fibs), stop_method |-> "fibonacci"]
             ELSE IF relevant_swings # {} /\ RLt(band, RMax(relevant_swings))
             THEN [base_stop |-> RMax(relevant_swings), stop_method |-> "structure"]
             ELSE [base_stop |-> default_stop, stop_method |-> "percentage"]
    ELSE LET relevant_swings == {high \in swing_highs : RLt(entry_price, high)}
             relevant_fibs == {level \in fib_levels : RLt(entry_price, level)}
             default_stop == RMul(entry_price, Rat(103, 100))
             band == RMul(entry_price, Rat(110, 100))
         IN  IF relevant_fibs # {} /\ RLt(RMin(relevant_fibs), band)
             THEN [base_stop |-> RMin(relevant_fibs), stop_method |-> "fibonacci"]
             ELSE IF relevant_swings # {} /\ RLt(RMin(relevant_swings), band)
             THEN [base_stop |-> RMin(relevant_swings), stop_method |-> "structure"]
             ELSE [base_stop |-> default_stop, stop_method |-> "percentage"]

BaseStop(entry_price, side, swing_highs, swing_lows, fib_levels) ==
    IF side = "BUY"
    THEN LET relevant_swings == {low \in swing_lows : RLt(low, entry_price)}
             relevant_fibs == {level \in fib_levels : RLt(level, entry_price)}
             default_stop == RMul(entry_price, Rat(97, 100))
             band == RMul(entry_price, Rat(90, 100))
         IN  IF relevant_swings # {} /\ RLt(band, RMax(relevant_swings))
             THEN [base_stop |-> RMax(relevant_swings), stop_method |-> "structure"]
             ELSE IF relevant_fibs # {} /\ RLt(band, RMax(relevant_fibs))
             THEN [base_stop |-> RMax(relevant_fibs), stop_method |-> "fibonacci"]
             ELSE [base_stop |-> default_stop, stop_method |-> "percentage"]
    ELSE LET relevant_swings == {high \in swing_highs : RLt(entry_price, high)}
             relevant_fibs == {level \in fib_levels : RLt(entry_price, level)}
             default_stop == RMul(entry_price, Rat(103, 100))
             band == RMul(entry_price, Rat(110, 100))
         IN  IF relevant_swings # {} /\ RLt(RMin(relevant_swings), band)
             THEN [base_stop |-> RMin(relevant_swings), stop_method |-> "structure"]
             ELSE IF relevant_fibs # {} /\ RLt(RMin(relevant_fibs), band)
             THEN [base_stop |-> RMin(relevant_fibs), stop_method |-> "fibonacci"]
             ELSE [base_stop |-> default_stop, stop_method |-> "percentage"]

\* lines 191-198
RiskRewardRatio(confidence) ==
    IF confidence = "high" THEN RInt(3)
    ELSE IF confidence = "medium_high" THEN Rat(5, 2)
    ELSE IF confidence = "medium" THEN RInt(2)
    ELSE Rat(3, 2)

\* lines 118-218: the structural computation, when none of its steps raises
StructuralStop(entry_price, leverage, side, swing_highs, swing_lows, fib_levels, confidence) ==
    LET b == BaseStop(entry_price, side, swing_highs, swing_lows, fib_levels)
        stop_loss_pct == RDiv(RAbs(RSub(b.base_stop, entry_price)), entry_price)
        leveraged_stop_loss == calculate_leveraged_stop_loss(entry_price, leverage,
                                                             stop_loss_pct, side)
        risk_reward_ratio == RiskRewardRatio(confidence)
        take_profit == calculate_dynamic_take_profit(entry_price, leveraged_stop_loss,
                                                     risk_reward_ratio, side)
    IN  [stop_loss |-> leveraged_stop_loss, take_profit |-> take_profit,
         method |-> b.stop_method, base_stop |-> b.base_stop,
         stop_loss_pct |-> RMul(stop_loss_pct, RInt(100)),
         risk_reward_ratio |-> risk_reward_ratio, trend_confidence |-> confidence]

\* lines 85-240.  frame: what df is; fails: a step of the structural
\* computation (swing points, trend, Fibonacci levels, the close column) raises
advanced_smc_stop_loss_Propagates(frame, fails, entry_price, leverage, side, swing_highs, swing_lows, fib_levels, confidence) ==
    IF frame \in {"none", "short"}
    THEN [raised |-> FALSE, out |-> DefaultStop(entry_price, leverage, side)]
    ELSE IF fails
    THEN [raised |-> TRUE, out |-> "Exception"]
    ELSE [raised |-> FALSE,
          out |-> StructuralStop(entry_price, leverage, side, swing_highs,
                                 swing_lows, fib_levels, confidence)]

advanced_smc_stop_loss(frame, fails, entry_price, leverage, side, swing_highs, swing_lows, fib_levels, confidence) ==
    IF frame \in {"none", "short"}
    THEN [raised |-> FALSE, out |-> DefaultStop(entry_price, leverage, side)]
    ELSE IF fails
    THEN [raised |-> FALSE,
          out |-> [stop_loss |-> DefaultStop(entry_price, leverage, side).stop_loss,
                   take_profit |-> DefaultStop(entry_price, leverage, side).take_profit,
                   method |-> "default_leveraged", risk_reward_ratio |-> RInt(2),
                   error |-> "str(e)"]]
    ELSE [raised |-> FALSE,
          out |-> StructuralStop(entry_price, leverage, side, swing_highs,
                                 swing_lows, fib_levels, confidence)]

\* stops on the side's protective side of entry, as calculate_leveraged_stop_loss
\* hands them to calculate_dynamic_take_profit
ProtectiveStops(entry_price, side) ==
    {calculate_leveraged_stop_loss(entry_price, l, p, side) :
        l \in Leverages, p \in BasePcts}

Call_calculate_dynamic_take_profit(entry_price, stop_loss, min_risk_reward, side) ==
    /\ call = NoCall
    /\ call' = [fn |-> "calculate_dynamic_take_profit",
                entry_price |-> entry_price, stop_loss |-> stop_loss,
                min_risk_reward |-> min_risk_reward, side |-> side,
                out |-> calculate_dynamic_take_profit(entry_price, stop_loss,
                                                      min_risk_reward, side)]
    /\ UNCHANGED <<api, trading>>

Call_advanced_smc_stop_loss(frame, fails, entry_price, leverage, side, swings, fibs, confidence) ==
    LET swing_points == {Level(entry_price, o) : o \in swings}
        fib_levels == {Level(entry_price, o) : o \in fibs}
        r == advanced_smc_stop_loss(frame, fails, entry_price, leverage, side,
                                    swing_points, swing_points, fib_levels, confidence)
    IN  /\ call = NoCall
        /\ call' = [fn |-> "advanced_smc_stop_loss", frame |-> frame, fails |-> fails,
                    entry_price |-> entry_price, leverage |-> leverage, side |-> side,
                    swing_points |-> swing_points, fib_levels |-> fib_levels,
                    confidence |-> confidence, raised |-> r.raised, out |-> r.out]
        /\ UNCHANGED <<api, trading>>

\* a float division as Python evaluates it: between Python floats a zero divisor
\* raises ZeroDivisionError; when an operand is a numpy scalar (np) it yields
\* inf or nan with a warning
DivRaises(np, b) == ~np /\ b = RInt(0)

Raised == [raised |-> TRUE, out |-> "ZeroDivisionError"]

\* lines 316-368; np: entry_price and stop_loss are numpy scalars, as when
\* adaptive_risk_management passes df['close'].iloc[-1] and a stop derived from it
calculate_position_size_NoLeverage(np, account_balance, entry_price, stop_loss, max_risk_percent, leverage) ==
    LET unit_risk == RAbs(RSub(entry_price, stop_loss))
        max_risk_amount == RMul(account_balance, RDiv(max_risk_percent, RInt(100)))
    IN  IF DivRaises(np, unit_risk) THEN Raised
        ELSE
        LET position_size == RDiv(max_risk_amount, unit_risk)
            leveraged_position_size == position_size
            position_value == RMul(leveraged_position_size, entry_price)
        IN  IF DivRaises(np, entry_price) \/ DivRaises(np, RInt(leverage)) THEN Raised
            ELSE
            LET actual_risk_amount ==
                    RMul(unit_risk, RDiv(RDiv(position_value, entry_price), RInt(leverage)))
            IN  IF DivRaises(np, account_balance) THEN Raised
                ELSE [raised |-> FALSE,
                      out |-> [position_size |-> leveraged_position_size,
                               position_value |-> position_value,
                               risk_amount |-> actual_risk_amount,
                               risk_percent |->
                                   RMul(RDiv(actual_risk_amount, account_balance), RInt(100)),
                               unit_risk |-> unit_risk,
                               leverage |-> leverage]]

calculate_position_size(np, account_balance, entry_price, stop_loss, max_risk_percent, leverage) ==
    LET unit_risk == RAbs(RSub(entry_price, stop_loss))
        max_risk_amount == RMul(account_balance, RDiv(max_risk_percent, RInt(100)))
    IN  IF DivRaises(np, unit_risk) THEN Raised
        ELSE
        LET position_size == RDiv(max_risk_amount, unit_risk)
            leveraged_position_size == RMul(position_size, RInt(leverage))
            position_value == RMul(leveraged_position_size, entry_price)
        IN  IF DivRaises(np, entry_price) \/ DivRaises(np, RInt(leverage)) THEN Raised
            ELSE
            LET actual_risk_amount ==
                    RMul(unit_risk, RDiv(RDiv(position_value, entry_price), RInt(leverage)))
            IN  IF DivRaises(np, account_balance) THEN Raised
                ELSE [raised |-> FALSE,
                      out |-> [position_size |-> leveraged_position_size,
                               position_value |-> position_value,
                               risk_amount |-> actual_risk_amount,
                               risk_percent |->
                                   RMul(RDiv(actual_risk_amount, account_balance), RInt(100)),
                               unit_risk |-> unit_risk,
                               leverage |-> leverage]]

\* an account may be empty
Balances == {RInt(0), RInt(500), RInt(1000)}

\* stops below, at and above an entry of 100
SizerStops == {RInt(97), Rat(985, 10), RInt(100), RInt(103)}

MaxRiskPercents == {RInt(2), Rat(5, 2), RInt(3)}

SizerLeverages == {1, 5, 16}

Call_calculate_position_size(np, account_balance, entry_price, stop_loss, max_risk_percent, leverage) ==
    LET r == calculate_position_size(np, account_balance, entry_price, stop_loss,
                                     max_risk_percent, leverage)
    IN  /\ call = NoCall
        /\ call' = [fn |-> "calculate_position_size", np |-> np,
                    account_balance |-> account_balance, entry_price |-> entry_price,
                    stop_loss |-> stop_loss, max_risk_percent |-> max_risk_percent,
                    leverage |-> leverage, raised |-> r.raised, out |-> r.out]
        /\ UNCHANGED <<api, trading>>

\* lines 396-407: the risk budget by quality score and trend confidence
BaseRiskPercent(quality_score, confidence) ==
    LET byQuality == IF RLe(RInt(8), quality_score) THEN RInt(3)
                     ELSE IF RLe(RInt(6), quality_score) THEN Rat(5, 2)
                     ELSE RInt(2)
    IN  IF confidence = "high" THEN RMul(byQuality, Rat(12, 10))
        ELSE IF confidence = "low" THEN RMul(byQuality, Rat(8, 10))
        ELSE byQuality

\* lines 410-439.  vortex: the frame has no Vortex columns ("absent"), the
\* indicator opposes the trade ("against"), or agrees with strength <= 0.8
\* ("weak"), <= 1.5 ("medium") or above ("strong"); cross: a cross signal on the
\* trade's side
Vortexes == {"absent", "against", "weak", "medium", "strong"}

VortexAdjustment_NoCross(vortex, cross) ==
    IF vortex = "absent" THEN RInt(1)
    ELSE IF vortex = "against" THEN Rat(8, 10)
    ELSE IF vortex = "strong" THEN Rat(12, 10)
    ELSE IF vortex = "medium" THEN Rat(11, 10)
    ELSE RInt(1)

VortexAdjustment(vortex, cross) ==
    IF vortex = "absent" THEN RInt(1)
    ELSE LET byTrend == IF vortex = "against" THEN Rat(8, 10)
                        ELSE IF vortex = "strong" THEN Rat(12, 10)
                        ELSE IF vortex = "medium" THEN Rat(11, 10)
                        ELSE RInt(1)
         IN  IF cross THEN RMul(byTrend, Rat(11, 10)) ELSE byTrend

\* lines 520-526
AnalysisFailed ==
    [error |-> "str(e)", recommendation |-> "AVOID",
     recommendation_reason |-> "analysis_failed"]

\* lines 501-512, with position_result["position_value"] as it stands there
Recommend(risk_level, quality_score, leverage, position_value) ==
    IF risk_level = "high" /\ RLt(quality_score, RInt(7))
    THEN [recommendation |-> "AVOID", recommendation_reason |-> "risk_high_quality_low"]
    ELSE IF leverage > 10 /\ RLt(quality_score, RInt(8))
    THEN [recommendation |-> "REDUCE_LEVERAGE",
          recommendation_reason |-> "leverage_high_quality_low"]
    ELSE IF RLt(position_value, RInt(10))
    THEN [recommendation |-> "INCREASE_SIZE", recommendation_reason |-> "size_too_small"]
    ELSE [recommendation |-> "PROCEED", recommendation_reason |-> "parameters_ok"]

\* RiskResult with the recommendation decided on the value the sizer returned,
\* before the minimum notional is applied
RiskResult_RecommendFirst(position_result, stop_loss_result, max_risk_percent, vortex_adjustment, confidence, current_price, quality_score, leverage) ==
    LET min_position_value == RInt(50)
        small == RLt(position_result.position_value, min_position_value)
        position_size == IF small THEN RDiv(min_position_value, current_price)
                         ELSE position_result.position_size
        position_value == IF small THEN min_position_value
                          ELSE position_result.position_value
        risk_percent == position_result.risk_percent
        risk_level == IF RLe(risk_percent, RInt(1)) THEN "low"
                      ELSE IF RLe(risk_percent, RInt(2)) THEN "medium"
                      ELSE "high"
        rule == Recommend(risk_level, quality_score, leverage,
                          position_result.position_value)
    IN  [entry_price |-> current_price, stop_loss |-> stop_loss_result.stop_loss,
         take_profit |-> stop_loss_result.take_profit,
         position_size |-> position_size,
         position_value |-> position_value,
         max_risk_percent |-> max_risk_percent,
         actual_risk_percent |-> risk_percent,
         risk_level |-> risk_level, leverage |-> leverage,
         risk_reward_ratio |-> stop_loss_result.risk_reward_ratio,
         quality_score |-> quality_score,
         trend_confidence |-> confidence,
         vortex_adjustment |-> vortex_adjustment,
         recommendation |-> rule.recommendation,
         recommendation_reason |-> rule.recommendation_reason]

\* lines 459-512: the minimum notional, the risk level and the recommendation,
\* from what the sizer returned
RiskResult(position_result, stop_loss_result, max_risk_percent, vortex_adjustment, confidence, current_price, quality_score, leverage) ==
    LET min_position_value == RInt(50)
        small == RLt(position_result.position_value, min_position_value)
        position_size == IF small THEN RDiv(min_position_value, current_price)
                         ELSE position_result.position_size
        position_value == IF small THEN min_position_value
                          ELSE position_result.position_value
        risk_percent == position_result.risk_percent
        risk_level == IF RLe(risk_percent, RInt(1)) THEN "low"
                      ELSE IF RLe(risk_percent, RInt(2)) THEN "medium"
                      ELSE "high"
        rule == Recommend(risk_level, quality_score, leverage, position_value)
    IN  [entry_price |-> current_price, stop_loss |-> stop_loss_result.stop_loss,
         take_profit |-> stop_loss_result.take_profit,
         position_size |-> position_size,
         position_value |-> position_value,
         max_risk_percent |-> max_risk_percent,
         actual_risk_percent |-> risk_percent,
         risk_level |-> risk_level, leverage |-> leverage,
         risk_reward_ratio |-> stop_loss_result.risk_reward_ratio,
         quality_score |-> quality_score,
         trend_confidence |-> confidence,
         vortex_adjustment |-> vortex_adjustment,
         recommendation |-> rule.recommendation,
         recommendation_reason |-> rule.recommendation_reason]

\* lines 451-457 and 520-526: an exception of the sizer is caught.  sized_value
\* is the position value the sizer returned
RiskAfterSizing(position_result, stop_loss_result, max_risk_percent, vortex_adjustment, confidence, current_price, quality_score, leverage) ==
    IF position_result.raised
    THEN [raised |-> FALSE, sized_value |-> NaN, out |-> AnalysisFailed]
    ELSE [raised |-> FALSE,
          sized_value |-> position_result.out.position_value,
          out |-> RiskResult(position_result.out, stop_loss_result,
                             max_risk_percent, vortex_adjustment, confidence,
                             current_price, quality_score, leverage)]

\* lines 446-457: the stop, then the size for it
RiskAfterStop(np, stop_loss_result, max_risk_percent, vortex_adjustment, confidence, current_price, account_balance, quality_score, leverage) ==
    IF stop_loss_result.raised
    THEN [raised |-> FALSE, sized_value |-> NaN, out |-> AnalysisFailed]
    ELSE RiskAfterSizing(
             calculate_position_size(np, account_balance, current_price,
                 stop_loss_result.out.stop_loss, max_risk_percent, leverage),
             stop_loss_result.out, max_risk_percent, vortex_adjustment,
             confidence, current_price, quality_score, leverage)

\* lines 371-526.  fails: a step of the analysis itself raises (no close
\* column, the trend analysis, a missing key); np: the close column holds numpy
\* floats (a float64 column) and not Python floats (an object column); frame,
\* smcFails, swing_points, fib_levels, confidence: what advanced_smc_stop_loss
\* finds in df
adaptive_risk_management(np, fails, frame, smcFails, swing_points, fib_levels, confidence, vortex, cross, current_price, account_balance, quality_score, side, leverage) ==
    IF fails THEN [raised |-> FALSE, sized_value |-> NaN, out |-> AnalysisFailed]
    ELSE RiskAfterStop(np,
             advanced_smc_stop_loss(frame, smcFails, current_price, leverage, side,
                                    swing_points, swing_points, fib_levels, confidence),
             RMul(BaseRiskPercent(quality_score, confidence),
                  VortexAdjustment(vortex, cross)),
             VortexAdjustment(vortex, cross),
             confidence, current_price, account_balance, quality_score, leverage)

QualityScores == {RInt(5), Rat(13, 2), RInt(7), RInt(8)}

\* an empty account, one too small for the minimum notional, and funded ones
AccountBalances == {RInt(0), RInt(1), RInt(500), RInt(1000)}

Call_adaptive_risk_management(np, fails, frame, smcFails, swings, fibs, confidence, vortex, cross, current_price, account_balance, quality_score, side, leverage) ==
    LET swing_points == {Level(current_price, o) : o \in swings}
        fib_levels == {Level(current_price, o) : o \in fibs}
        r == adaptive_risk_management(np, fails, frame, smcFails, swing_points,
                 fib_levels, confidence, vortex, cross, current_price,
                 account_balance, quality_score, side, leverage)
    IN  /\ call = NoCall
        /\ call' = [fn |-> "adaptive_risk_management", np |-> np, fails |-> fails,
                    frame |-> frame, smcFails |-> smcFails,
                    swing_points |-> swing_points, fib_levels |-> fib_levels,
                    confidence |-> confidence, vortex |-> vortex, cross |-> cross,
                    current_price |-> current_price,
                    account_balance |-> account_balance,
                    quality_score |-> quality_score, side |-> side,
                    leverage |-> leverage, raised |-> r.raised,
                    sized_value |-> r.sized_value, out |-> r.out]
        /\ UNCHANGED <<api, trading>>

\* simple_trading_bot.py lines 1150-1161: the order amount is capped at 5% of
\* the balance, then raised to MIN_NOTIONAL when the balance covers it
MinNotional == 5

AdjustedAmount(amount, account_balance) ==
    LET max_allowed_amount == RMul(account_balance, Rat(5, 100))
        capped == IF RLt(max_allowed_amount, amount) THEN max_allowed_amount ELSE amount
        min_amount == RInt(MinNotional)
    IN  IF RLt(capped, min_amount) /\ RLe(min_amount, account_balance)
        THEN min_amount
        ELSE capped

OrderAmounts == {RInt(1), RInt(4), RInt(10), RInt(100)}

OrderBalances == {RInt(0), RInt(4), RInt(5), RInt(60), RInt(1000)}

Call_order_amount(amount, account_balance) ==
    /\ call = NoCall
    /\ call' = [fn |-> "order_amount", amount |-> amount,
                account_balance |-> account_balance,
                out |-> AdjustedAmount(amount, account_balance)]
    /\ UNCHANGED <<api, trading>>

NextRisk ==
    \/ /\ call = NoCall
       /\ \E e \in EntryPrices, l \in Leverages, p \in BasePcts, s \in OrderSides :
             Call_calculate_leveraged_stop_loss(e, l, p, s)
    \/ /\ call = NoCall
       /\ \E e \in EntryPrices, s \in OrderSides,
             m \in {RiskRewardRatio(c) : c \in Confidences} :
             \E st \in ProtectiveStops(e, s) :
                Call_calculate_dynamic_take_profit(e, st, m, s)
    \/ /\ call = NoCall
       /\ \E f \in Frames, x \in BOOLEAN, l \in {1, 4}, s \in OrderSides,
             sw \in LevelSets, fb \in LevelSets, c \in Confidences :
             \* a frame that is not analysed has no swing points or levels
             /\ (f # "ok" \/ x) => (sw = {} /\ fb = {} /\ c = "low")
             /\ Call_advanced_smc_stop_loss(f, x, RInt(100), l, s, sw, fb, c)
    \/ /\ call = NoCall
       /\ \E np \in BOOLEAN, b \in Balances, st \in SizerStops,
             p \in MaxRiskPercents, l \in SizerLeverages :
             Call_calculate_position_size(np, b, RInt(100), st, p, l)
    \/ /\ call = NoCall
       /\ \E np \in BOOLEAN, x \in BOOLEAN, f \in {"short", "ok"}, y \in BOOLEAN,
             sw \in {{}, {0 - 4, 4}}, c \in {"high", "medium", "low"},
             v \in Vortexes, cr \in BOOLEAN,
             b \in AccountBalances, q \in QualityScores, s \in OrderSides,
             l \in {1, 16} :
             \* a frame that is not analysed has no swing points, trend or Vortex
             /\ (x \/ f # "ok" \/ y) => (sw = {} /\ c = "low")
             /\ x => (f = "ok" /\ ~y /\ v = "absent" /\ ~cr)
             /\ (v = "absent") => ~cr
             /\ Call_adaptive_risk_management(np, x, f, y, sw, {}, c, v, cr,
                                              RInt(100), b, q, s, l)
    \/ /\ call = NoCall
       /\ \E a \in OrderAmounts, b \in OrderBalances : Call_order_amount(a, b)

SpecRisk == Init /\ [][NextRisk]_vars

TypeOK ==
    /\ nOrders \in 0 .. MaxOpens
    /\ nextPid \in 1 .. MaxOpens + 1
    /\ venue \subseteq Sides
    /\ \A p \in Live : rec[p].side \in Sides

\* ================================================================ properties
StaysOpen(p) == p \in Live /\ p \in SeqElems(open_positions')

\* stop b is at least as protective as stop a
AsProtective(side, a, b) == IF side = "LONG" THEN b >= a ELSE b <= a

\* C1: from creation to closure, current_stop_level of an open position never
\* retreats (non-decreasing for LONG, non-increasing for SHORT) across any
\* operation: ticks of either schedule and merge-on-reentry.
C1_StopNeverRetreats ==
    [][\A p \in Pids : StaysOpen(p) =>
          AsProtective(rec[p].side, rec[p].current_stop_level,
                       rec'[p].current_stop_level)]_vars

\* C2: no ratchet update is lost between concurrent ticks of the two schedules:
\* a tick's write to a position (never merged, so only ticks have written its
\* stop) leaves current_stop_level the most protective of the previous stop and
\* the tick's candidate, never less protective than it was before the write.
C2_NoLostRatchetUpdate ==
    [][\A p \in Pids : (ev'.op = "tick" /\ ev'.pid = p /\ rec[p].merges = 0) =>
          AsProtective(rec[p].side, rec[p].current_stop_level,
                       rec'[p].current_stop_level)]_vars

\* C3: a position is never double-closed: the gateway accepts at most one
\* close order submitted for a given position.
C3_AtMostOneAcceptedClose == \A p \in Pids : accepted[p] <= 1

\* C4: a position leaves the live set if and only if a close order for it was
\* accepted by the gateway: no removal without an accepted close, and when
\* close_position returns no position with an accepted close is still listed.
C4_RemovedIffCloseAccepted ==
    [][/\ \A p \in Pids : (p \in Live /\ p \notin SeqElems(open_positions'))
                             => accepted'[p] >= 1
       /\ ev'.op = "close_return"
             => \A p \in SeqElems(open_positions') : accepted'[p] = 0]_vars

\* C5: a close order the gateway rejects or fails leaves the record set and
\* every field unchanged; close_position returning without an accepted close
\* keeps the position (still held at the venue) listed and unchanged; and any
\* tick that reads the record as it is, so also the next one after the failure,
\* issues the close exactly when its price is across the stop.
C5_FailedCloseKeepsPosition ==
    [][/\ ev'.op = "close_fail"
             => (rec' = rec /\ open_positions' = open_positions /\ venue' = venue)
       /\ \A p \in Pids :
             (ev'.op = "close_return" /\ ev'.pid = p /\ p \in Live
                 /\ accepted[p] = 0 /\ rec[p].side \in venue)
             => (p \in SeqElems(open_positions') /\ rec'[p] = rec[p])
       /\ \A t \in Threads :
             (ev'.op = "tick" /\ ev'.t = t /\ loc[t] = Snapshot(rec[ev'.pid]))
             => (ev'.closeReq <=> StopHit(rec[ev'.pid].side, ev'.price,
                                          rec'[ev'.pid].current_stop_level))]_vars

\* C5 witness: close_position has returned False for a position whose close
\* order failed at the gateway, and the position is still listed and held
C5_Witness ==
    /\ ev.op = "close_return" /\ ~ev.closeReq
    /\ ev.pid \in Live /\ accepted[ev.pid] = 0 /\ rec[ev.pid].side \in venue

\* C6: on every tick that obtains a price, a close order is issued if and only
\* if the price has crossed the position's stop as it stands after the tick's
\* ratchet update (<= for LONG, >= for SHORT).
C6_CloseIffStopCrossed ==
    [][ev'.op = "tick" =>
          (ev'.closeReq <=> IF rec[ev'.pid].side = "LONG"
                            THEN ev'.price <= rec'[ev'.pid].current_stop_level
                            ELSE ev'.price >= rec'[ev'.pid].current_stop_level)]_vars

\* C7: trailing_active never changes from true back to false while the
\* position is open, under any sequence of ticks and re-entry merges.
C7_ActiveNeverReverts ==
    [][\A p \in Pids : (StaysOpen(p) /\ rec[p].trailing_active)
                          => rec'[p].trailing_active]_vars

\* C7 (amended): only a re-entry merge resets trailing_active to false; no tick
\* of either schedule, whatever it read, ever does.
C7_OnlyMergeDisarms ==
    [][\A p \in Pids : (rec[p].trailing_active /\ ~rec'[p].trailing_active)
                          => (ev'.op = "merge" /\ ev'.pid = p)]_vars

\* C7 witness: a tick has run on a position that was armed before it, and the
\* position is still armed and listed
C7_Witness ==
    /\ ev.op = "tick" /\ ~ev.armed /\ ev.pid \in Live
    /\ rec[ev.pid].trailing_active

\* C8: trailing_active is set to true only by a tick whose price gives the
\* position an unrealised profit fraction >= its trailing_activation.
C8_ArmedOnlyAtThreshold ==
    [][\A p \in Pids : (~rec[p].trailing_active /\ rec'[p].trailing_active)
          => /\ ev'.op = "tick" /\ ev'.pid = p
             /\ ProfitReached(rec'[p].side, rec'[p].entry_price,
                              rec'[p].trailing_activation, ev'.price)]_vars

\* C9: a tick that observes, for an un-armed position, a profit fraction >=
\* trailing_activation arms it in that same tick, new extreme or not.
C9_ArmedWhenThresholdSeen ==
    [][\A p \in Pids :
          (ev'.op = "tick" /\ ev'.pid = p /\ ~rec[p].trailing_active
              /\ ProfitReached(rec[p].side, rec[p].entry_price,
                               rec[p].trailing_activation, ev'.price))
          => rec'[p].trailing_active]_vars

\* C10: an armed open position's stop is within the trailing distance of the
\* best price seen: stop >= highest * (1 - distance) for LONG, stop <= lowest *
\* (1 + distance) for SHORT; and a tick at a price that is no new extreme
\* leaves the stop where it was.
C10_StopWithinTrailingDistance ==
    [][/\ \A p \in SeqElems(open_positions') : rec'[p].trailing_active =>
             IF rec'[p].side = "LONG"
             THEN rec'[p].current_stop_level * 1000
                     >= rec'[p].highest_price * (1000 - rec'[p].trailing_distance)
             ELSE rec'[p].current_stop_level * 1000
                     <= rec'[p].lowest_price * (1000 + rec'[p].trailing_distance)
       /\ \A p \in Pids :
             (ev'.op = "tick" /\ ev'.pid = p /\ rec[p].trailing_active
                 /\ IF rec[p].side = "LONG" THEN ev'.price <= rec[p].highest_price
                    ELSE ev'.price >= rec[p].lowest_price)
             => rec'[p].current_stop_level = rec[p].current_stop_level]_vars

\* C11: ticks applied one after another by a single schedule (each tick writes
\* to the record it read, nothing having changed it in between) never make
\* current_stop_level retreat, and the stop changes only to the candidate
\* extreme * (1 -/+ trailing_distance) and only when that is strictly more
\* protective than the stop before the tick.
C11_SequentialTicksRatchet ==
    [][\A p \in Pids : (ev'.op = "tick" /\ ev'.pid = p /\ ev'.fresh) =>
          /\ AsProtective(rec[p].side, rec[p].current_stop_level,
                          rec'[p].current_stop_level)
          /\ rec'[p].current_stop_level # rec[p].current_stop_level =>
                IF rec[p].side = "LONG"
                THEN /\ rec'[p].current_stop_level * 1000
                           = rec'[p].highest_price * (1000 - rec[p].trailing_distance)
                     /\ rec'[p].current_stop_level > rec[p].current_stop_level
                ELSE /\ rec'[p].current_stop_level * 1000
                           = rec'[p].lowest_price * (1000 + rec[p].trailing_distance)
                     /\ rec'[p].current_stop_level < rec[p].current_stop_level]_vars

\* C11 witness: a tick that wrote to the record as it had read it has moved the
\* stop of a listed, never merged position to its candidate
C11_Witness ==
    /\ ev.op = "tick" /\ ev.fresh /\ ev.pid \in Live
    /\ rec[ev.pid].merges = 0 /\ rec[ev.pid].trailing_active
    /\ rec[ev.pid].current_stop_level =
          CandidateStop(rec[ev.pid].side, ev.price, rec[ev.pid].trailing_distance)

\* C12: highest_price (LONG) / lowest_price (SHORT) is the best price seen since
\* entry: a tick of either schedule on a never merged position never moves it
\* in the unfavourable direction and leaves it at least as good as the price
\* the tick obtained.
C12_ExtremeIsBestPriceSeen ==
    [][\A p \in Pids : (ev'.op = "tick" /\ ev'.pid = p /\ rec[p].merges = 0) =>
          IF rec[p].side = "LONG"
          THEN /\ rec'[p].highest_price >= rec[p].highest_price
               /\ rec'[p].highest_price >= ev'.price
          ELSE /\ rec'[p].lowest_price <= rec[p].lowest_price
               /\ rec'[p].lowest_price <= ev'.price]_vars

C14_MergeIsNotionalWeighted ==
    [][\A p \in Pids : (ev'.op = "merge" /\ ev'.pid = p) =>
          /\ rec'[p].quantity = rec[p].quantity + ev'.qty
          /\ rec'[p].entry_price * rec'[p].quantity
                = rec[p].entry_price * rec[p].quantity + ev'.price * ev'.qty
          /\ \/ rec[p].entry_price <= rec'[p].entry_price
                   /\ rec'[p].entry_price <= ev'.price
             \/ ev'.price <= rec'[p].entry_price
                   /\ rec'[p].entry_price <= rec[p].entry_price]_vars

\* C14 witness: a fill of quantity 2 at another price has been merged into a
\* position of quantity 1
C14_Witness ==
    /\ ev.op = "merge" /\ ev.pid \in Live /\ ev.qty = 2
    /\ rec[ev.pid].quantity = 3
    /\ rec[ev.pid].entry_price # ev.price

\* C15: every merge-on-reentry resets the position to the un-armed state,
\* armed before or not: trailing_active false, the tracked extreme at the merged
\* entry price, current_stop_level re-derived from the merged entry price and
\* the new initial_stop_loss.
C15_MergeResetsToInitial ==
    [][\A p \in Pids : (ev'.op = "merge" /\ ev'.pid = p) =>
          /\ ~rec'[p].trailing_active
          /\ rec'[p].initial_stop_loss = SignedStopLoss(rec[p].side)
          /\ IF rec[p].side = "LONG"
             THEN /\ rec'[p].highest_price = rec'[p].entry_price
                  /\ rec'[p].current_stop_level * 1000
                        = rec'[p].entry_price * (1000 + rec'[p].initial_stop_loss)
             ELSE /\ rec'[p].lowest_price = rec'[p].entry_price
                  /\ rec'[p].current_stop_level * 1000
                        = rec'[p].entry_price * (1000 - rec'[p].initial_stop_loss)]_vars

\* C15 witness: a fill has been merged into a position that was armed
C15_Witness ==
    /\ ev.op = "merge" /\ ev.armed /\ ev.pid \in Live
    /\ ~rec[ev.pid].trailing_active

\* C16: a tick and a merge-on-reentry on the same record are mutually
\* exclusive: a tick that read the record before a merge changed its entry
\* price leaves the record as one of the two serial orders does, either as the
\* merge left it (tick, then merge) or as a tick computed from the merged record
\* leaves it (merge, then tick).
C16_TickMergeSerializable ==
    [][\A t \in Threads, p \in Pids :
          (ev'.op = "tick" /\ ev'.t = t /\ ev'.pid = p
              /\ loc[t].entry_price # rec[p].entry_price)
          => \/ rec'[p] = rec[p]
             \/ rec'[p] = TickWrite(rec[p], Snapshot(rec[p]), ev'.price)]_vars

\* C17: a price fetch that fails for one position leaves every record and the
\* list unchanged and goes on with the scan where it stands, so that the
\* positions after it are still read and evaluated in the same scan.
C17_FetchFailureSkipsOnePosition ==
    [][\A t \in Threads : (ev'.op = "fetch_fail" /\ ev'.t = t) =>
          /\ rec' = rec /\ open_positions' = open_positions /\ venue' = venue
          /\ iterList'[t] = iterList[t] /\ idx'[t] = idx[t]
          /\ pc'[t] = "loop"
          /\ \A i \in idx[t] .. Len(iterList[t]) :
                i >= idx'[t] /\ iterList'[t][i] = iterList[t][i]]_vars

\* C17 witness: the monitor's price fetch for a listed position has failed and
\* its scan stands in the loop with another position still to read
C17_Witness ==
    /\ ev.op = "fetch_fail" /\ ev.t = "mon" /\ ev.pid \in Live
    /\ pc["mon"] = "loop" /\ idx["mon"] <= Len(iterList["mon"])

\* C18: the monitor thread's supervisor loop never terminates while the process
\* runs: whatever fails inside a tick (position reload, price fetch, close
\* order), the loop goes on to a later tick.
C18_MonitorNeverTerminates == pc["mon"] # "dead"

\* C19: check_and_reconnect_api makes at most 3 reconnection attempts after a
\* failed ping; when all of them fail it returns False (it does not raise),
\* and the decision loop then goes on to its next cycle.
C19_ReconnectBounded ==
    [][/\ attempt' <= RetryCount
       /\ slept' <= 5 + 10 + 15
       /\ (apiPc = "reconnect" /\ apiPc' # "reconnect") =>
             /\ apiPc' = "none"
             /\ apiResult' = IF attempt' = attempt THEN "False" ELSE "True"
             /\ apiResult' = "False" => attempt = RetryCount
       /\ (apiPc = "none" /\ apiResult = "False" /\ trade_cycle' # trade_cycle) =>
             trade_cycle' = (trade_cycle + 1) % CheckEvery]_vars

\* C19 witness: a call has returned False after its third failed attempt and
\* the decision loop has gone on to the next cycle
C19_Witness ==
    /\ apiPc = "none" /\ apiResult = "False" /\ attempt = RetryCount
    /\ slept = 30 /\ trade_cycle = 1

\* C20: every successful close of a position is followed by the appending of
\* one terminal record for it to the position history: when close_position
\* returns success, the history holds a record of the closed position.
C20_CloseAppendsHistory ==
    [][(ev'.op = "close_return" /\ ev'.closeReq) =>
          \E i \in 1 .. Len(position_history') : position_history'[i] = ev'.pid]_vars


C24_LeveragedStopFormula ==
    call.fn = "calculate_leveraged_stop_loss" =>
        LET e == call.entry_price
            dist == RSub(e, call.out)
            full == RMul(e, call.base_stop_loss_pct)
        IN  /\ RMul(RMul(dist, dist), RInt(call.leverage)) = RMul(full, full)
            /\ call.side = "BUY" => RLt(call.out, e)
            /\ call.side = "SELL" => RLt(e, call.out)
            /\ (e = RInt(100) /\ call.leverage = 4 /\ call.side = "BUY"
                  /\ call.base_stop_loss_pct = Rat(3, 100)) => call.out = Rat(985, 10)
            /\ \A l \in Leverages : l > call.leverage =>
                  RLe(RAbs(RSub(e, calculate_leveraged_stop_loss(
                                      e, l, call.base_stop_loss_pct, call.side))),
                      RAbs(dist))

C24_Witness ==
    /\ call.fn = "calculate_leveraged_stop_loss"
    /\ call.entry_price = RInt(100) /\ call.leverage = 4 /\ call.side = "BUY"
    /\ call.base_stop_loss_pct = Rat(3, 100)
    /\ call.out = Rat(197, 2)


\* the points of S beyond entry on the side's protective side, and the one of
\* them nearest to entry
Beyond(S, entry_price, side) ==
    {x \in S : IF side = "BUY" THEN RLt(x, entry_price) ELSE RLt(entry_price, x)}

Nearest(S, entry_price) ==
    CHOOSE x \in S : \A y \in S :
        RLe(RAbs(RSub(x, entry_price)), RAbs(RSub(y, entry_price)))

\* strictly less than 10% of entry away from entry
InBand(x, entry_price) ==
    RLt(RAbs(RSub(x, entry_price)), RMul(entry_price, Rat(10, 100)))

\* the stop is the 3% stop of the side, tightened by the square root of leverage
IsDefaultStop(stop_loss, entry_price, leverage, side) ==
    LET dist == RSub(entry_price, stop_loss)
        full == RMul(entry_price, Rat(3, 100))
    IN  /\ RMul(RMul(dist, dist), RInt(leverage)) = RMul(full, full)
        /\ IF side = "BUY" THEN RLt(stop_loss, entry_price)
                            ELSE RLt(entry_price, stop_loss)

\* the target is m times the stop's distance from entry, on the other side
IsTarget(take_profit, entry_price, stop_loss, m, side) ==
    LET reward == RMul(RAbs(RSub(entry_price, stop_loss)), m)
    IN  IF side = "BUY"
        THEN take_profit = RAdd(entry_price, reward)
             /\ RLt(stop_loss, entry_price) /\ RLt(entry_price, take_profit)
        ELSE take_profit = RSub(entry_price, reward)
             /\ RLt(entry_price, stop_loss) /\ RLt(take_profit, entry_price)

\* C22: advanced_smc_stop_loss never raises and always returns a stop_loss and
\* a take_profit; when the frame is absent or has fewer than 20 rows, or a step
\* of the structural computation fails, the result is the default one: the 3%
\* leverage-adjusted stop, risk_reward_ratio 2.0 and method default_leveraged.
C22_SmcStopNeverRaises ==
    call.fn = "advanced_smc_stop_loss" =>
        /\ ~call.raised
        /\ {"stop_loss", "take_profit"} \subseteq DOMAIN call.out
        /\ (call.frame \in {"none", "short"} \/ call.fails) =>
              /\ call.out.method = "default_leveraged"
              /\ call.out.risk_reward_ratio = RInt(2)
              /\ IsDefaultStop(call.out.stop_loss, call.entry_price,
                               call.leverage, call.side)
              /\ IsTarget(call.out.take_profit, call.entry_price,
                          call.out.stop_loss, RInt(2), call.side)

C22_Witness ==
    /\ call.fn = "advanced_smc_stop_loss"
    /\ call.frame = "ok" /\ call.fails
    /\ ~call.raised
    /\ call.out.method = "default_leveraged"
    /\ call.leverage = 4 /\ call.side = "SELL"
    /\ call.out.stop_loss = Rat(203, 2) /\ call.out.take_profit = RInt(97)

C25_TakeProfitFormula ==
    /\ call.fn = "calculate_dynamic_take_profit" =>
          /\ IsTarget(call.out, call.entry_price, call.stop_loss,
                      call.min_risk_reward, call.side)
          /\ (call.entry_price = RInt(100) /\ call.stop_loss = Rat(985, 10)
                /\ call.min_risk_reward = RInt(2) /\ call.side = "BUY")
                => call.out = RInt(103)
    /\ (call.fn = "advanced_smc_stop_loss" /\ call.frame = "ok" /\ ~call.fails) =>
          LET m == CASE call.confidence = "high" -> Rat(30, 10)
                     [] call.confidence = "medium_high" -> Rat(25, 10)
                     [] call.confidence = "medium" -> Rat(20, 10)
                     [] OTHER -> Rat(15, 10)
          IN  /\ call.out.risk_reward_ratio = m
              /\ IsTarget(call.out.take_profit, call.entry_price,
                          call.out.stop_loss, m, call.side)

C25_Witness ==
    /\ call.fn = "calculate_dynamic_take_profit"
    /\ call.entry_price = RInt(100) /\ call.stop_loss = Rat(197, 2)
    /\ call.min_risk_reward = RInt(2) /\ call.side = "BUY"
    /\ call.out = RInt(103)


\* a non-negative float rounded to k decimals, in units of 10^-k
RoundTo(a, k) == (2 * a.n * 10^k + a.d) \div (2 * a.d)

\* C26: calculate_position_size returns unit_risk = |entry - stop|, a
\* position_size that is balance * maxRiskPercent / 100 / unitRisk * leverage
\* and a position_value that is position_size * entry; balance 1000, entry 100,
\* stop 98.5, maxRiskPercent 2, leverage 5 gives unit_risk 1.5, position_size
\* 66.67 and position_value 6667 after rounding.
C26_PositionSizeFormula ==
    (call.fn = "calculate_position_size" /\ ~call.raised
        /\ call.entry_price # call.stop_loss) =>
        LET unit == IF RLt(call.stop_loss, call.entry_price)
                    THEN RSub(call.entry_price, call.stop_loss)
                    ELSE RSub(call.stop_loss, call.entry_price)
        IN  /\ call.out.unit_risk = unit
            /\ RMul(RMul(call.out.position_size, unit), RInt(100))
                  = RMul(RMul(call.account_balance, call.max_risk_percent),
                         RInt(call.leverage))
            /\ call.out.position_value = RMul(call.out.position_size, call.entry_price)
            /\ (call.account_balance = RInt(1000) /\ call.stop_loss = Rat(985, 10)
                  /\ call.max_risk_percent = RInt(2) /\ call.leverage = 5) =>
                  /\ RoundTo(call.out.unit_risk, 1) = 15
                  /\ RoundTo(call.out.position_size, 2) = 6667
                  /\ RoundTo(call.out.position_value, 0) = 6667

C26_Witness ==
    /\ call.fn = "calculate_position_size" /\ ~call.raised
    /\ call.account_balance = RInt(1000) /\ call.entry_price = RInt(100)
    /\ call.stop_loss = Rat(197, 2) /\ call.max_risk_percent = RInt(2)
    /\ call.leverage = 5
    /\ call.out.position_size = Rat(200, 3)
    /\ call.out.position_value = Rat(20000, 3)

\* C27: whenever unitRisk = |entry - stop| > 0, the position size that
\* calculate_position_size returns is strictly greater than 0.
C27_SizePositive ==
    (call.fn = "calculate_position_size" /\ ~call.raised
        /\ call.entry_price # call.stop_loss) =>
        RLt(RInt(0), call.out.position_size)

\* C28: calculate_position_size returns a result for every input, stop equal
\* to entry and an account balance of 0 included; it never raises.
C28_SizerNeverRaises ==
    call.fn = "calculate_position_size" => ~call.raised


\* C29: adaptive_risk_management never raises, and every upstream failure and
\* every definitional error (here: an account balance of zero) gives a result
\* whose recommendation is AVOID, with the failure reason attached.
C29_FailureYieldsAvoid ==
    call.fn = "adaptive_risk_management" =>
        /\ ~call.raised
        /\ (call.fails \/ call.account_balance = RInt(0)) =>
              /\ call.out.recommendation = "AVOID"
              /\ "error" \in DOMAIN call.out

\* C30: when the analysis succeeds the recommendation is that of the first rule
\* that matches: risk level high (actual risk above 2% of balance) and quality below 7.0 gives
\* AVOID; else leverage above 10 and quality below 8.0 gives REDUCE_LEVERAGE;
\* else a sized position value below the floor of 10 gives INCREASE_SIZE; else
\* PROCEED.
C30_OrderedRules ==
    (call.fn = "adaptive_risk_management" /\ ~call.raised
        /\ "risk_level" \in DOMAIN call.out) =>
        LET q == call.quality_score
            high == call.out.risk_level = "high"
        IN  /\ IsFinite(call.out.actual_risk_percent) =>
                  (high <=> RLt(RInt(2), call.out.actual_risk_percent))
            /\ call.out.recommendation =
                  IF high /\ RLt(q, RInt(7)) THEN "AVOID"
                  ELSE IF call.leverage > 10 /\ RLt(q, RInt(8)) THEN "REDUCE_LEVERAGE"
                  ELSE IF RLt(call.sized_value, RInt(10)) THEN "INCREASE_SIZE"
                  ELSE "PROCEED"

\* what the ordering of lines 459-469 and 507 makes of it: no call recommends
\* INCREASE_SIZE, and every value tested against 10 is at least 50
C30_IncreaseSizeNeverProduced ==
    (call.fn = "adaptive_risk_management" /\ "risk_level" \in DOMAIN call.out) =>
        /\ call.out.recommendation # "INCREASE_SIZE"
        /\ RLe(RInt(50), call.out.position_value)


\* C31: the risk-percent budget handed to the sizer is base * trend * momentum:
\* base 3.0 for quality >= 8, 2.5 for quality >= 6, else 2.0; trend 1.2 for
\* high confidence, 0.8 for low, else 1.0; momentum 1.2 / 1.1 / 1.0 on strong /
\* medium / weak agreement, 0.8 on disagreement, times 1.1 on an agreeing
\* crossover; and momentum 1.0 when the frame has no oscillator columns.
C31_RiskBudget ==
    (call.fn = "adaptive_risk_management" /\ "max_risk_percent" \in DOMAIN call.out) =>
        LET q == call.quality_score
            base == CASE RLe(RInt(8), q) -> Rat(30, 10)
                      [] RLt(q, RInt(8)) /\ RLe(RInt(6), q) -> Rat(25, 10)
                      [] OTHER -> Rat(20, 10)
            trend == CASE call.confidence = "high" -> Rat(12, 10)
                       [] call.confidence = "low" -> Rat(8, 10)
                       [] OTHER -> RInt(1)
            agree == CASE call.vortex = "strong" -> Rat(12, 10)
                       [] call.vortex = "medium" -> Rat(11, 10)
                       [] call.vortex = "weak" -> RInt(1)
                       [] call.vortex = "against" -> Rat(8, 10)
                       [] OTHER -> RInt(1)
            momentum == IF call.vortex = "absent" THEN RInt(1)
                        ELSE IF call.cross THEN RMul(agree, Rat(11, 10))
                        ELSE agree
        IN  /\ call.out.vortex_adjustment = momentum
            /\ call.out.max_risk_percent = RMul(RMul(base, trend), momentum)
            \* the sizer risks exactly that share of a non-empty account
            /\ call.account_balance # RInt(0) =>
                  call.out.actual_risk_percent = call.out.max_risk_percent

C31_Witness ==
    /\ call.fn = "adaptive_risk_management"
    /\ call.quality_score = RInt(8) /\ call.confidence = "high"
    /\ call.vortex = "strong" /\ call.cross
    /\ "max_risk_percent" \in DOMAIN call.out
    /\ call.out.max_risk_percent = Rat(4752, 1000)


\* C32: a sized position value below the minimum notional is raised to the
\* minimum, and only when the account can carry a position of that value; the
\* same for the order amount of place_futures_order_usdc.
C32_FloorOnlyIfAccountPermits ==
    /\ (call.fn = "adaptive_risk_management" /\ "position_value" \in DOMAIN call.out
          /\ RLt(call.sized_value, RInt(50))) =>
          IF RLe(RInt(50), RMul(call.account_balance, RInt(call.leverage)))
          THEN /\ call.out.position_value = RInt(50)
               /\ RMul(call.out.position_size, call.current_price) = RInt(50)
          ELSE call.out.position_value = call.sized_value
    /\ (call.fn = "order_amount" /\ RLt(call.out, RInt(MinNotional))) =>
          RLt(call.account_balance, RInt(MinNotional))
    /\ (call.fn = "order_amount" /\ RLt(call.account_balance, RInt(MinNotional))) =>
          RLe(call.out, call.account_balance)


\* C33: every result of adaptive_risk_management that carries a recommendation
\* carries a non-empty reason with it, and every fallback result of
\* advanced_smc_stop_loss (method default_leveraged) carries a reason for the
\* fallback.
C33_ReasonsAttached ==
    /\ (call.fn = "adaptive_risk_management" /\ "recommendation" \in DOMAIN call.out) =>
          /\ call.out.recommendation \in {"PROCEED", "AVOID", "REDUCE_LEVERAGE", "INCREASE_SIZE"}
          /\ "recommendation_reason" \in DOMAIN call.out
          /\ call.out.recommendation_reason # ""
    /\ (call.fn = "advanced_smc_stop_loss" /\ ~call.raised
          /\ call.out.method = "default_leveraged") =>
          \E k \in {"error", "reason"} : k \in DOMAIN call.out /\ call.out[k] # ""


\* the stop is on the side of entry that protects the position
Protective(side, stop, entry) == IF side = "LONG" THEN stop < entry ELSE stop > entry

\* C34: every position recorded after a fill, and every position converted by
\* convert_positions_to_trailing_stop, starts with its stop on the protective
\* side of entry (below for LONG, above for SHORT), so that a first tick at the
\* entry price does not ask for a close.
C34_InitialStopProtective ==
    [][/\ ev'.op = "open" =>
            Protective(rec'[ev'.pid].side, rec'[ev'.pid].current_stop_level,
                       rec'[ev'.pid].entry_price)
       \* and had it been a legacy record, converted at start-up
       /\ ev'.op = "open" =>
            Protective(rec'[ev'.pid].side,
                       ConvertedStopPrice(rec'[ev'.pid].side, rec'[ev'.pid].entry_price),
                       rec'[ev'.pid].entry_price)
       /\ (ev'.op = "tick" /\ ev'.price = rec[ev'.pid].entry_price
             /\ rec[ev'.pid].merges = 0 /\ ~rec[ev'.pid].trailing_active)
            => ~ev'.closeReq]_vars


\* C35: a replacement of self.open_positions by load_existing_positions (at the
\* start of a tick of either thread, at the end of manage_open_positions and at
\* the end of close_position) keeps every listed position the venue still
\* holds, other than those the call itself has just closed, and leaves the
\* trailing state of every record as it was.
C35_ReloadKeepsState == [][\A p \in Live :
    /\ (ManageStart \/ MonitorLoadAssign) =>
          (rec[p].side \in venue => p \in Live' /\ rec'[p] = rec[p])
    /\ ManageEnd(TRUE) =>
          ((rec[p].side \in venue /\ p \notin SeqElems(toRemove)) =>
              p \in Live' /\ rec'[p] = rec[p])
    /\ (\E t \in Threads : CloseFinish(t, TRUE) /\ p \notin SeqElems(closedPos[t])) =>
          (rec[p].side \in venue => p \in Live' /\ rec'[p] = rec[p])]_vars


\* the positions the for-loop of manage_open_positions has still to yield
Remaining == {iterList["main"][k] : k \in idx["main"] .. Len(iterList["main"])}

\* C36: during one pass of manage_open_positions, a position the loop has
\* still to yield stays to be yielded until the loop yields it, unless the
\* close call of the pass has closed it: closing and removing an earlier
\* position makes the loop skip no position.
C36_NoPositionSkipped == [][(pc["main"] # "idle" /\ pc'["main"] # "idle") =>
    \A p \in Remaining : \/ p \in Remaining'
                         \/ cur'["main"] = p
                         \/ p \in SeqElems(closedPos["main"])]_vars


\* C37: with the monitor thread running between the statements of a
\* merge-on-reentry, every indexed write self.open_positions[i][...] lands on
\* the record the scan matched, the fields of every other record stay as they
\* were, and no IndexError ends the merge before its last write.
C37_MergeWritesMatchedRecord == [][pc["main"] \in {"merge_entry", "merge_stop"} =>
    /\ ev'.op # "merge_abort"
    /\ ev'.op \in {"merge_entry", "merge"} =>
          /\ ev'.pid = matched.pos
          /\ \A p \in Pids \ {matched.pos} : rec'[p] = rec[p]]_vars



\* current_price <= stop for LONG, >= stop for SHORT
AtOrBeyond(side, cp, stop) == IF side = "LONG" THEN cp <= stop ELSE cp >= stop

\* every price a tick observes for p is at or beyond the stop of p's record
ObservedBeyond(p) ==
    (ev'.op = "tick" /\ ev'.pid = p) =>
        AtOrBeyond(rec[p].side, ev'.price, rec[p].current_stop_level)

C39_UnarmedTickKeepsStop == [][\A p \in Pids :
    (ev'.op = "tick" /\ ev'.pid = p /\ ~rec[p].trailing_active /\ ~rec'[p].trailing_active) =>
        /\ rec'[p].current_stop_level = rec[p].current_stop_level
        /\ rec[p].current_stop_level =
              InitialStopPrice(rec[p].side, rec[p].entry_price, rec[p].initial_stop_loss)
        /\ rec'[p] = [rec[p] EXCEPT !.highest_price = rec'[p].highest_price,
                                    !.lowest_price = rec'[p].lowest_price]
        /\ rec[p].side = "LONG" => rec'[p].lowest_price = rec[p].lowest_price
        /\ rec[p].side = "SHORT" => rec'[p].highest_price = rec[p].highest_price]_vars


\* C40: every result of adaptive_risk_management that is not the error result
\* has position_value >= 50, the sized value raised to 50 when it was below,
\* and so never recommends INCREASE_SIZE, whatever the sizer returned.
C40_FloorBeforeRecommendation ==
    (call.fn = "adaptive_risk_management" /\ "error" \notin DOMAIN call.out) =>
        /\ RLe(RInt(50), call.out.position_value)
        /\ call.out.position_value =
              IF RLt(call.sized_value, RInt(50)) THEN RInt(50) ELSE call.sized_value
        /\ call.out.recommendation \in {"AVOID", "REDUCE_LEVERAGE", "PROCEED"}

\* the sizer returned less than 10 and the call proceeds with 50
C40_Witness ==
    /\ call.fn = "adaptive_risk_management" /\ "error" \notin DOMAIN call.out
    /\ RLt(call.sized_value, RInt(10))
    /\ call.out.position_value = RInt(50)
    /\ call.out.recommendation = "PROCEED"

====
